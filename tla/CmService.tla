------------------------------ MODULE CmService ------------------------------
(***************************************************************************)
(* What the client and server of Chapter 10 promise.  The server accepts a *)
(* client once.  The client then puts its question, once; the server, while*)
(* it is open, hears it and answers, once; and a client is content only    *)
(* with the answer.  Anybody may leave at any time.                        *)
(***************************************************************************)
CONSTANT Clients

VARIABLES
  open,      \* the server runs
  place,     \* of each client: "asking", "waiting", "content" or "gone"
  accepted,  \* clients whose connection the server has accepted
  question,  \* of each client: "none", "sent" or "heard"
  reply      \* to each client: the same

vars == <<open, place, accepted, question, reply>>

Init ==
  /\ open = TRUE
  /\ place = [c \in Clients |-> "asking"]
  /\ accepted = {}
  /\ question = [c \in Clients |-> "none"]
  /\ reply = [c \in Clients |-> "none"]

Accept(c) ==
  /\ open
  /\ place[c] = "asking"
  /\ c \notin accepted
  /\ accepted' = accepted \cup {c}
  /\ UNCHANGED <<open, place, question, reply>>

Ask(c) ==
  /\ place[c] = "asking"
  /\ c \in accepted
  /\ question[c] = "none"
  /\ place' = [place EXCEPT ![c] = "waiting"]
  /\ question' = [question EXCEPT ![c] = "sent"]
  /\ UNCHANGED <<open, accepted, reply>>

HearQuestion(c) ==
  /\ open
  /\ place[c] = "waiting"
  /\ question[c] = "sent"
  /\ question' = [question EXCEPT ![c] = "heard"]
  /\ UNCHANGED <<open, place, accepted, reply>>

Answer(c) ==
  /\ open
  /\ question[c] = "heard"
  /\ reply[c] = "none"
  /\ reply' = [reply EXCEPT ![c] = "sent"]
  /\ UNCHANGED <<open, place, accepted, question>>

HearReply(c) ==
  /\ open
  /\ place[c] = "waiting"
  /\ reply[c] = "sent"
  /\ reply' = [reply EXCEPT ![c] = "heard"]
  /\ UNCHANGED <<open, place, accepted, question>>

BeContent(c) ==
  /\ place[c] = "waiting"
  /\ reply[c] = "heard"
  /\ place' = [place EXCEPT ![c] = "content"]
  /\ UNCHANGED <<open, accepted, question, reply>>

Leave(c) ==
  /\ place[c] # "gone"
  /\ place' = [place EXCEPT ![c] = "gone"]
  /\ UNCHANGED <<open, accepted, question, reply>>

Close ==
  /\ open
  /\ open' = FALSE
  /\ UNCHANGED <<place, accepted, question, reply>>

Next ==
  \/ \E c \in Clients :
       \/ Accept(c) \/ Ask(c) \/ HearQuestion(c)
       \/ Answer(c) \/ HearReply(c) \/ BeContent(c) \/ Leave(c)
  \/ Close

Spec == Init /\ [][Next]_vars
=============================================================================
