CONSTANT Programs = {"hello_verbs", "rc_pingpong", "rdma_write", "rdma_read", "ud_send",
  "rdma_bench", "srq_example", "cm_server", "cm_client"}
SPECIFICATION Spec
INVARIANTS OrderRespectsReferences AllGivenBack
CHECK_DEADLOCK FALSE
