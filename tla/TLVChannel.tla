----------------------------- MODULE TLVChannel -----------------------------
(***************************************************************************)
(* What the library promises of one stream: the messages put into it come  *)
(* out at once, all of them, in the order they went in, or the transfer    *)
(* fails and none comes out; and once the stream is closed, one of the two *)
(* happens.  Bytes, frames and offsets do not exist at this level.         *)
(***************************************************************************)
EXTENDS Sequences

CONSTANT Item  \* the messages

VARIABLES
  outbox,  \* the messages put in
  inbox,   \* the messages that came out
  state    \* open, closed, delivered or failed

channelVars == << outbox, inbox, state >>

Init == outbox = << >> /\ inbox = << >> /\ state = "open"

Put(m) ==
  /\ state = "open"
  /\ outbox' = Append(outbox, m)
  /\ UNCHANGED << inbox, state >>

Close ==
  /\ state = "open"
  /\ state' = "closed"
  /\ UNCHANGED << outbox, inbox >>

Deliver ==
  /\ state = "closed"
  /\ state' = "delivered"
  /\ inbox' = outbox
  /\ UNCHANGED outbox

Fail ==
  /\ state \in {"open", "closed"}
  /\ state' = "failed"
  /\ UNCHANGED << outbox, inbox >>

Next == (\E m \in Item : Put(m)) \/ Close \/ Deliver \/ Fail

Spec == Init /\ [][Next]_channelVars /\ WF_channelVars(Deliver \/ (Fail /\ state = "closed"))
=============================================================================
