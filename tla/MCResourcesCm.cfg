CONSTANT Programs = {"cm_client"}
SPECIFICATION Spec
INVARIANT CmOrder
CHECK_DEADLOCK FALSE
