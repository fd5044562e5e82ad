------------------------------- MODULE RxQueue -------------------------------
(***************************************************************************)
(* What the superloop expects of the Ethernet driver: a queue that takes   *)
(* at most as many frames as there are receive descriptors, hands them out *)
(* oldest first and each once, and forgets them when the link has failed.  *)
(* It may also give up; from then on nothing is promised.                  *)
(***************************************************************************)
EXTENDS Naturals, Sequences

CONSTANT ETH_RX_DESC_CNT

VARIABLES
  queue,      \* the frames received and not read yet, oldest first
  received,   \* how many have been received; frames are numbered from 1
  handed,     \* the frame handed out last
  sound       \* FALSE when the driver has given up

queueVars == <<queue, received, handed, sound>>

QueueInit == queue = << >> /\ received = 0 /\ handed = 0 /\ sound = TRUE

Accept ==
  /\ Len(queue) < ETH_RX_DESC_CNT
  /\ received' = received + 1
  /\ queue' = Append(queue, received')
  /\ UNCHANGED handed

Deliver ==
  /\ queue # << >>
  /\ handed' = Head(queue)
  /\ queue' = Tail(queue)
  /\ UNCHANGED received

Forget == queue' = << >> /\ UNCHANGED <<received, handed>>

QueueNext ==
  \/ ~sound'
  \/ sound /\ sound' /\ (Accept \/ Deliver \/ Forget)

QueueSpec == QueueInit /\ [][QueueNext]_queueVars
=============================================================================
