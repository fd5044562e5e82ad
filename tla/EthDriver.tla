------------------------------ MODULE EthDriver ------------------------------
(***************************************************************************)
(* The receiving half of the Ethernet driver (ethernetif.c over hal_eth.c):*)
(* a ring of descriptors that the DMA and the superloop share, a pool of   *)
(* buffers that the driver and LwIP share, and the link supervision, which *)
(* stops and restarts the DMA.                                             *)
(*                                                                         *)
(* The superloop (MX_LWIP_Process) reads frames until there is none, lets  *)
(* LwIP's timers run and looks after the link; pc says where it is:        *)
(*   input     low_level_input              timeouts  sys_check_timeouts   *)
(*   stack     netif->input of p            link      the link check       *)
(* The DMA and the PHY go on meanwhile.                                    *)
(***************************************************************************)
EXTENDS Integers, Sequences, FiniteSets, SequencesExt

CONSTANTS
  ETH_RX_DESC_CNT,     \* receive descriptors
  ETH_RX_BUFFER_CNT,   \* buffers of RX_POOL
  MaxHeld,             \* IP_REASS_MAX_PBUFS: fragments that LwIP may keep
  MaxFrames, MaxFlaps  \* bounds: frames received, times the link fails

ASSUME EthAssumption ==
  /\ ETH_RX_DESC_CNT \in Nat \ {0}
  /\ ETH_RX_BUFFER_CNT \in Nat /\ ETH_RX_BUFFER_CNT >= ETH_RX_DESC_CNT
  /\ {MaxHeld, MaxFrames, MaxFlaps} \subseteq Nat

Descs   == 0 .. ETH_RX_DESC_CNT - 1
Buffers == 1 .. ETH_RX_BUFFER_CNT
NULL    == 0

VARIABLES
  pc,
  gState,          \* of heth: "READY" or "STARTED"; the netif is up when STARTED
  OWN,             \* DESC0 of each descriptor: it belongs to the DMA
  DESC2,           \* the buffer that the DMA writes to
  BackupAddr0,     \* the buffer attached to the descriptor
  RxDescIdx, RxBuildDescIdx, RxBuildDescCnt,
  RxAllocStatus,   \* "OK" or "ERROR"
  pool,            \* RX_POOL, the buffer that is handed out next first
  p,               \* the frame in hand: what low_level_input has returned
  held,            \* the buffers that LwIP keeps for reassembly
  DMACHRDR,        \* the descriptor that the DMA has come to
  link,            \* what the PHY reports: "up", "down" or "nego"
  content,         \* the number of the frame in a buffer
  received, handed, sound, flaps    \* history; RxQueue says what of

ring    == <<OWN, DESC2, BackupAddr0, RxDescIdx, RxBuildDescIdx, RxBuildDescCnt>>
buffers == <<RxAllocStatus, pool>>
lwip    == <<p, held>>
dma     == <<DMACHRDR, content, received>>
phy     == <<link, flaps>>
vars == <<pc, gState, ring, buffers, lwip, dma, phy, handed, sound>>

TypeOK ==
  /\ pc \in {"input", "stack", "timeouts", "link"}
  /\ gState \in {"READY", "STARTED"}
  /\ OWN \in [Descs -> BOOLEAN]
  /\ DESC2 \in [Descs -> Buffers \cup {NULL}] /\ BackupAddr0 \in [Descs -> Buffers \cup {NULL}]
  /\ RxDescIdx \in Descs /\ RxBuildDescIdx \in Descs /\ DMACHRDR \in Descs
  /\ RxBuildDescCnt \in 0 .. ETH_RX_DESC_CNT
  /\ RxAllocStatus \in {"OK", "ERROR"}
  /\ pool \in Seq(Buffers)
  /\ p \in Buffers \cup {NULL} /\ held \subseteq Buffers /\ Cardinality(held) <= MaxHeld
  /\ link \in {"up", "down", "nego"} /\ flaps \in 0 .. MaxFlaps
  /\ content \in [Buffers -> 0 .. MaxFrames]
  /\ received \in 0 .. MaxFrames /\ handed \in 0 .. MaxFrames /\ sound \in BOOLEAN

(* ETH_DMARxDescListInit and LWIP_MEMPOOL_INIT.                            *)
Init ==
  /\ pc = "link" /\ gState = "READY" /\ link = "down" /\ flaps = 0
  /\ OWN = [d \in Descs |-> TRUE]
  /\ DESC2 = [d \in Descs |-> NULL] /\ BackupAddr0 = [d \in Descs |-> NULL]
  /\ RxDescIdx = 0 /\ RxBuildDescIdx = 0 /\ RxBuildDescCnt = 0 /\ DMACHRDR = 0
  /\ RxAllocStatus = "OK"
  /\ pool = [i \in Buffers |-> i]
  /\ p = NULL /\ held = {}
  /\ content = [b \in Buffers |-> 0]
  /\ received = 0 /\ handed = 0 /\ sound = TRUE

-----------------------------------------------------------------------------
(* Descriptors.                                                            *)

NeverWraps(d, n) == d + n                           \* mutant
Plus(d, n) == (d + n) % ETH_RX_DESC_CNT

(* ETH_UpdateDescriptor, for cnt descriptors from RxBuildDescIdx on: each  *)
(* gets a buffer if it has none and goes to the DMA, until there are no    *)
(* buffers left.                                                           *)
UpdateDescriptor(cnt, own, backup) ==
  LET desc(i)    == Plus(RxBuildDescIdx, i - 1)
      missing(i) == Cardinality({j \in 1 .. i : backup[desc(j)] = NULL})
      built      == {i \in 1 .. cnt : missing(i) <= Len(pool)}
      at(d)      == {i \in built : desc(i) = d}
      attached   == [d \in Descs |->
                       IF backup[d] = NULL /\ at(d) # {}
                         THEN pool[missing(CHOOSE i \in at(d) : TRUE)] ELSE backup[d]]
      taken      == missing(Cardinality(built))
  IN  /\ BackupAddr0' = attached
      /\ DESC2' = [d \in Descs |-> IF backup[d] # attached[d] THEN attached[d] ELSE DESC2[d]]
      /\ OWN' = [d \in Descs |-> own[d] \/ at(d) # {}]
      /\ pool' = SubSeq(pool, taken + 1, Len(pool))
      /\ RxAllocStatus' = IF Cardinality(built) < cnt THEN "ERROR" ELSE RxAllocStatus
      /\ RxBuildDescIdx' = Plus(RxBuildDescIdx, Cardinality(built))
      /\ RxBuildDescCnt' = cnt - Cardinality(built)

(* The three indices of a ring that has just been built.                   *)
Aligned ==
  RxBuildDescCnt = 0 /\ RxBuildDescIdx = RxDescIdx /\ RxDescIdx = DMACHRDR

-----------------------------------------------------------------------------
(* ethernetif_input.                                                       *)

KeepBuffer(d) == BackupAddr0                        \* mutant
Detached(d) == [BackupAddr0 EXCEPT ![d] = NULL]

(* What the DMA has filled and the superloop has not read.                 *)
Unread == {d \in Descs : ~OWN[d] /\ BackupAddr0[d] # NULL}

MayRead == RxAllocStatus = "OK" /\ gState = "STARTED"
Ready == ~OWN[RxDescIdx] /\ RxBuildDescCnt < ETH_RX_DESC_CNT

(* low_level_input with a frame at RxDescIdx.                              *)
ReadData ==
  /\ pc = "input" /\ MayRead /\ Ready
  /\ p' = DESC2[RxDescIdx]
  /\ handed' = content[p']
  /\ UpdateDescriptor(RxBuildDescCnt + 1, OWN, Detached(RxDescIdx))
  /\ RxDescIdx' = Plus(RxDescIdx, 1)
  /\ pc' = "stack"
  /\ UNCHANGED <<gState, held, dma, phy, sound>>

(* low_level_input that returns NULL.                                      *)
ReadNothing ==
  /\ pc = "input" /\ ~(MayRead /\ Ready)
  /\ IF MayRead THEN UpdateDescriptor(RxBuildDescCnt, OWN, BackupAddr0)
     ELSE UNCHANGED <<OWN, DESC2, BackupAddr0, RxBuildDescIdx, RxBuildDescCnt, buffers>>
  /\ pc' = "timeouts"
  /\ UNCHANGED <<gState, RxDescIdx, lwip, dma, phy, handed, sound>>

(* pbuf_free_custom of each of a set of buffers.                           *)
StaysInError == UNCHANGED RxAllocStatus             \* mutant
AllocAgain == RxAllocStatus' = "OK"

Free(set) ==
  /\ pool' = SetToSeq(set) \o pool
  /\ AllocAgain

(* netif->input: the frame has been dealt with ...                         *)
StackFrees ==
  /\ pc = "stack" /\ pc' = "input"
  /\ Free({p}) /\ p' = NULL
  /\ UNCHANGED <<gState, ring, held, dma, phy, handed, sound>>

(* ... or is a fragment and kept, or the last one of all that are kept.    *)
StackKeeps ==
  /\ pc = "stack" /\ pc' = "input"
  /\ Cardinality(held) < MaxHeld
  /\ held' = held \cup {p} /\ p' = NULL
  /\ UNCHANGED <<gState, ring, buffers, dma, phy, handed, sound>>

StackReassembles ==
  /\ pc = "stack" /\ pc' = "input"
  /\ \E fragments \in (SUBSET held) \ {{}} :
       Free(fragments \cup {p}) /\ held' = held \ fragments
  /\ p' = NULL
  /\ UNCHANGED <<gState, ring, dma, phy, handed, sound>>

(* When there is no room for it, LwIP frees other datagrams, the oldest    *)
(* first, and keeps it in their place.                                     *)
StackEvicts ==
  /\ pc = "stack" /\ pc' = "input"
  /\ \E fragments \in (SUBSET held) \ {{}} :
       Free(fragments) /\ held' = (held \ fragments) \cup {p}
  /\ p' = NULL
  /\ UNCHANGED <<gState, ring, dma, phy, handed, sound>>

-----------------------------------------------------------------------------
(* sys_check_timeouts: nothing is due, or IP_REASS_MAXAGE is over.         *)

NothingDue ==
  /\ pc = "timeouts" /\ pc' = "link"
  /\ UNCHANGED <<gState, ring, buffers, lwip, dma, phy, handed, sound>>

ReassTimeout ==
  /\ pc = "timeouts" /\ pc' = "link"
  /\ \E fragments \in (SUBSET held) \ {{}} :
       Free(fragments) /\ held' = held \ fragments
  /\ UNCHANGED <<gState, ring, p, dma, phy, handed, sound>>

-----------------------------------------------------------------------------
(* Ethernet_Link_Periodic_Handle and ethernet_link_check_state.            *)

(* Less than 100 ms have passed, or nothing has changed.                   *)
LinkNotChecked ==
  /\ pc = "link" /\ pc' = "input"
  /\ UNCHANGED <<gState, ring, buffers, lwip, dma, phy, handed, sound>>

(* HAL_ETH_Stop_IT.                                                        *)
LinkLost ==
  /\ pc = "link" /\ pc' = "input"
  /\ gState = "STARTED" /\ link = "down"
  /\ gState' = "READY"
  /\ UNCHANGED <<ring, buffers, lwip, dma, phy, handed, sound>>

RebuildPending == RxBuildDescCnt                    \* mutant
RebuildAll == ETH_RX_DESC_CNT

(* HAL_ETH_Start_IT: all descriptors go to the DMA, but neither RxDescIdx  *)
(* nor the position of the DMA is reset.                                   *)
LinkFound ==
  /\ pc = "link" /\ pc' = "input"
  /\ gState = "READY" /\ link = "up"
  /\ gState' = "STARTED"
  /\ UpdateDescriptor(RebuildAll, OWN, BackupAddr0)
  /\ UNCHANGED <<RxDescIdx, lwip, dma, phy, handed>>
  /\ sound' = (sound /\ Aligned')

-----------------------------------------------------------------------------
(* The DMA and the PHY.                                                    *)

DmaReceives ==
  /\ gState = "STARTED" /\ link = "up"
  /\ OWN[DMACHRDR]
  /\ received < MaxFrames
  /\ received' = received + 1
  /\ content' = [content EXCEPT ![DESC2[DMACHRDR]] = received']
  /\ OWN' = [OWN EXCEPT ![DMACHRDR] = FALSE]
  /\ DMACHRDR' = Plus(DMACHRDR, 1)
  /\ UNCHANGED <<pc, gState, DESC2, BackupAddr0, RxDescIdx, RxBuildDescIdx, RxBuildDescCnt,
                 buffers, lwip, phy, handed, sound>>

LinkChanges ==
  /\ \/ link = "up" /\ link' = "down" /\ flaps < MaxFlaps /\ flaps' = flaps + 1
     \/ link = "down" /\ link' \in {"nego", "up"} /\ UNCHANGED flaps
     \/ link = "nego" /\ link' = "up" /\ UNCHANGED flaps
  /\ UNCHANGED <<pc, gState, ring, buffers, lwip, dma, handed, sound>>

-----------------------------------------------------------------------------
Superloop ==
  \/ ReadData \/ ReadNothing \/ StackFrees \/ StackKeeps \/ StackReassembles
  \/ StackEvicts \/ NothingDue \/ ReassTimeout \/ LinkNotChecked \/ LinkLost \/ LinkFound

Next == Superloop \/ DmaReceives \/ LinkChanges

Spec == Init /\ [][Next]_vars

(* The superloop goes on, and a reassembly that is not completed times out *)
(* after 15 turns of a timer.                                              *)
FairSpec == Spec /\ WF_vars(Superloop) /\ SF_vars(ReassTimeout)

-----------------------------------------------------------------------------
(* The descriptors that hold frames, from the one that is read next to the *)
(* one that the DMA has come to.                                           *)
queue ==
  IF ~sound THEN << >>
  ELSE LET n == Cardinality({i \in Descs : \A j \in 0 .. i : ~OWN[Plus(RxDescIdx, j)]
                                                          /\ BackupAddr0[Plus(RxDescIdx, j)] # NULL})
       IN  [i \in 1 .. n |-> content[BackupAddr0[Plus(RxDescIdx, i - 1)]]]

Queue == INSTANCE RxQueue

(* The driver is a queue of frames, as the server relies on: none is lost, *)
(* doubled or overtaken between descriptor and LwIP, whatever LwIP keeps   *)
(* and whenever the pool runs dry; except after a restart that found a     *)
(* frame unread or the pool empty.                                         *)
IsAQueue == Queue!QueueSpec

Users(b) ==
  {<<"desc", d>> : d \in {d \in Descs : BackupAddr0[d] = b}}
    \cup {<<"pool", i>> : i \in {i \in DOMAIN pool : pool[i] = b}}
    \cup {<<"lwip", i>> : i \in {i \in {1} : b \in held}}
    \cup {<<"hand", i>> : i \in {i \in {1} : b = p}}

(* Every buffer has one owner, while frames are queued as they should: none *)
(* leaks, and the DMA never writes to a frame that LwIP has in hand.  Once   *)
(* a restart has confused the indices, a further one can make the driver    *)
(* hand out a buffer twice.                                                *)
OneOwner ==
  sound =>
    /\ \A b \in Buffers : Cardinality(Users(b)) = 1
    /\ gState = "STARTED" => \A d \in Descs : OWN[d] => DESC2[d] = BackupAddr0[d] /\ DESC2[d] # NULL

(* A pool that has run dry stops all reading, but not for ever.            *)
ReadingResumes == RxAllocStatus = "ERROR" ~> RxAllocStatus = "OK"

(* While a frame waits in a descriptor LwIP is handed one after a while,   *)
(* and because the driver is a queue it is that frame's turn in the end,   *)
(* unless the link fails.                                                  *)
FramesAreRead ==
  sound /\ queue # << >> /\ pc # "stack" ~> pc = "stack" \/ ~sound \/ gState = "READY"

(* The DMA is not left without a descriptor for ever while the link is up, *)
(* not even when a restart has confused the indices.                       *)
NeverDeaf == []<>(gState = "READY" \/ OWN[DMACHRDR])

(* What ethernetif.c says of low_level_input: it returns the packet that   *)
(* was received, or NULL on a memory error.                                *)
NullOnlyWithoutFrame ==
  [][pc = "input" /\ pc' = "timeouts" /\ MayRead => Unread = {}]_vars
=============================================================================
