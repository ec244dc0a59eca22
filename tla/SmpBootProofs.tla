---------------------------- MODULE SmpBootProofs ----------------------------
(***************************************************************************)
(* Proofs about the start of the cores, for every number of processors and *)
(* every place of the BSP in the table.  The heart of the invariant is     *)
(* OneAtATime: as long as no AP is late, the only AP between off and its   *)
(* loop is the one the BSP waits for, so the mailbox and the flag are      *)
(* about that one.                                                         *)
(***************************************************************************)
EXTENDS SmpBoot, TLAPS

Before  == {"core", "alloc", "mail_stack", "mail_state", "init", "sipi"}
Waiting == {"wait", "poll", "check"}

\* The processors that the loop has not started yet are off.
Fresh ==
    \A k \in Entries :
        Order[k] # Bsp /\ ((k > i) \/ (k = i /\ pc \in Before)) => ap[Order[k]] = "off"

\* Nothing is reported of the present entry and those after it.
Unreported ==
    \A k \in Entries : Order[k] # Bsp /\ k >= i => report[Order[k]] = "none"

\* From the allocation to the last look at the flag the entry is an AP, and
\* the mailbox words that have been written are for it.
Current ==
    /\ pc \in {"alloc", "mail_stack", "mail_state", "init", "sipi"} \cup Waiting => Order[i] # Bsp
    /\ pc \in {"mail_state", "init", "sipi"} \cup Waiting => mb_stack = Order[i]
    /\ pc \in {"init", "sipi"} \cup Waiting => mb_state = Order[i] /\ Order[i] \in cores

Registered == \A c \in APs : ap[c] # "off" => c \in cores /\ report[c] # "skipped"

OneAtATime ==
    ~Late => \A c \in APs : ap[c] \notin {"off", "loop"} => pc \in Waiting /\ c = Order[i]

FlagMeans ==
    ~Late => /\ pc \in {"alloc", "mail_stack", "mail_state", "init", "sipi"} => ~ap_boot_flag
             /\ pc \in Waiting /\ ap_boot_flag => ap[Order[i]] = "loop"

Online == ~Late => \A c \in APs : report[c] = "online" => ap[c] = "loop"

IInv ==
    /\ TypeOK /\ Fresh /\ Unreported /\ Current /\ Registered
    /\ OneAtATime /\ FlagMeans /\ Online /\ OwnBlocks

-----------------------------------------------------------------------------
LEMMA OrderFacts ==
    /\ Len(Order) \in Nat
    /\ Entries = 1..Len(Order)
    /\ \A k \in Entries : Order[k] \in Ids /\ (Order[k] # Bsp => Order[k] \in APs)
    /\ \A j, k \in Entries : Order[j] = Order[k] => j = k
    /\ 1 \in Entries
    /\ NULL \notin APs
<1>1. Len(Order) \in Nat /\ Entries = 1..Len(Order)
  BY OrderAssumption DEF Entries
<1>2. \A k \in Entries : Order[k] \in Ids /\ (Order[k] # Bsp => Order[k] \in APs)
  BY DEF Ids, APs
<1>3. \E k \in Entries : TRUE
  BY OrderAssumption DEF Ids
<1>4. 1 \in Entries
  BY <1>1, <1>3
<1>. QED
  BY <1>1, <1>2, <1>4, OrderAssumption DEF APs

LEMMA InitHolds == Init => IInv
<1>. SUFFICES ASSUME Init PROVE IInv
  OBVIOUS
<1>1. pc = "core" /\ i = 1 /\ i \in Entries /\ bsp_core_idx \in Entries
  BY OrderFacts DEF Init
<1>2. TypeOK
  BY <1>1, OrderFacts DEF Init, TypeOK, BspPc, ApPc
<1>3. Fresh /\ Unreported /\ Current /\ Registered
  BY OrderFacts DEF Init, Fresh, Unreported, Current, Registered, Waiting
<1>4. OneAtATime /\ FlagMeans /\ Online /\ OwnBlocks
  BY OrderFacts DEF Init, OneAtATime, FlagMeans, Online, OwnBlocks, Waiting
<1>. QED
  BY <1>2, <1>3, <1>4 DEF IInv

-----------------------------------------------------------------------------
(* Steps of the AP c: it moves on from a place where, if it is not late,   *)
(* the BSP waits for it.                                                   *)

(* An AP that has started stays started, so a late one stays late.         *)
LEMMA ApStaysLate ==
    ASSUME TypeOK, NEW c \in APs, ApRuns(c)
    PROVE  /\ Late => Late'
           /\ ap[c] \notin {"off", "loop"}
           /\ ap' = [ap EXCEPT ![c] = ap'[c]]
           /\ ap'[c] # "off"
           /\ UNCHANGED <<bspVars, mailbox>>
<1>1. /\ ap[c] \notin {"off", "loop"}
      /\ ap'[c] # "off"
      /\ ap' = [ap EXCEPT ![c] = ap'[c]]
      /\ UNCHANGED <<bspVars, mailbox>>
  BY DEF ApRuns, Trampoline, ReadStack, ReadState, SetUp, CheckIn, ApStep,
         TypeOK
<1>2. Late => Late'
  BY <1>1 DEF Late, bspVars, TypeOK
<1>. QED
  BY <1>1, <1>2

LEMMA ApTypes ==
    ASSUME TypeOK, NEW c \in APs, ApRuns(c)
    PROVE  TypeOK'
<1>1. UNCHANGED <<bspVars, mailbox>>
  BY ApStaysLate
<1>2. ap' \in [APs -> ApPc]
  BY DEF ApRuns, Trampoline, ReadStack, ReadState, SetUp, CheckIn, ApStep,
         TypeOK, ApPc
<1>3. rsp' \in [APs -> APs \cup {NULL}]
  BY DEF ApRuns, Trampoline, ReadStack, ReadState, SetUp, CheckIn, TypeOK
<1>4. rsp0' \in [APs -> APs \cup {NULL}]
  BY DEF ApRuns, Trampoline, ReadStack, ReadState, SetUp, CheckIn, TypeOK
<1>5. self' \in [APs -> APs \cup {NULL}]
  BY DEF ApRuns, Trampoline, ReadStack, ReadState, SetUp, CheckIn, TypeOK
<1>6. ap_boot_flag' \in BOOLEAN
  BY DEF ApRuns, Trampoline, ReadStack, ReadState, SetUp, CheckIn, TypeOK
<1>. QED
  BY <1>1, <1>2, <1>3, <1>4, <1>5, <1>6 DEF TypeOK, bspVars, mailbox

LEMMA ApOwns ==
    ASSUME IInv, NEW c \in APs, ApRuns(c)
    PROVE  OwnBlocks'
<1>. SUFFICES ASSUME ~Late'
              PROVE  \A d \in APs :
                       /\ ap'[d] \notin {"off", "tramp"} => rsp'[d] = d
                       /\ ap'[d] \notin {"off", "tramp", "entry"} => rsp0'[d] = d
                       /\ ap'[d] \notin {"off", "tramp", "entry", "core"} => self'[d] = d
  BY DEF OwnBlocks
<1>0. TypeOK
  BY DEF IInv
<1>1. ~Late
  BY <1>0, ApStaysLate
<1>2. mb_stack = c /\ mb_state = c
  BY <1>0, <1>1, ApStaysLate DEF IInv, OneAtATime, Current
<1>3. \A d \in APs :
        /\ ap[d] \notin {"off", "tramp"} => rsp[d] = d
        /\ ap[d] \notin {"off", "tramp", "entry"} => rsp0[d] = d
        /\ ap[d] \notin {"off", "tramp", "entry", "core"} => self[d] = d
  BY <1>1 DEF IInv, OwnBlocks
<1>4. CASE Trampoline(c)
  BY <1>0, <1>2, <1>3, <1>4 DEF Trampoline, ApStep, TypeOK
<1>5. CASE ReadStack(c)
  BY <1>0, <1>2, <1>3, <1>5 DEF ReadStack, ApStep, TypeOK
<1>6. CASE ReadState(c)
  BY <1>0, <1>2, <1>3, <1>6 DEF ReadState, ApStep, TypeOK
<1>7. CASE SetUp(c)
  BY <1>0, <1>3, <1>7 DEF SetUp, ApStep, TypeOK
<1>8. CASE CheckIn(c)
  BY <1>0, <1>3, <1>8 DEF CheckIn, ApStep, TypeOK
<1>. QED
  BY <1>4, <1>5, <1>6, <1>7, <1>8 DEF ApRuns

LEMMA ApKeeps ==
    ASSUME IInv, NEW c \in APs, ApRuns(c)
    PROVE  IInv'
<1>0. TypeOK
  BY DEF IInv
<1>1. /\ Late => Late'
      /\ ap[c] \notin {"off", "loop"}
      /\ ap' = [ap EXCEPT ![c] = ap'[c]]
      /\ ap'[c] # "off"
      /\ UNCHANGED <<bspVars, mailbox>>
  BY <1>0, ApStaysLate
<1>2. \A d \in APs : d # c => ap'[d] = ap[d]
  BY <1>0, <1>1 DEF TypeOK
<1>3. /\ pc' = pc /\ i' = i /\ cores' = cores /\ report' = report
      /\ mb_stack' = mb_stack /\ mb_state' = mb_state
  BY <1>1 DEF bspVars, mailbox
<1>4. Fresh'
  BY <1>1, <1>2, <1>3, OrderFacts DEF IInv, Fresh
<1>5. Unreported' /\ Current'
  BY <1>3 DEF IInv, Unreported, Current
<1>6. Registered'
  BY <1>1, <1>2, <1>3 DEF IInv, Registered
<1>7. OneAtATime'
  BY <1>1, <1>2, <1>3 DEF IInv, OneAtATime
<1>8. FlagMeans'
  <2>1. CASE CheckIn(c)
    <3>1. ap'[c] = "loop"
      BY <1>0, <2>1 DEF CheckIn, ApStep, TypeOK
    <3>2. ~Late => pc \in Waiting /\ c = Order[i]
      BY <1>1 DEF IInv, OneAtATime
    <3>. QED
      BY <1>1, <1>3, <3>1, <3>2 DEF FlagMeans, Waiting
  <2>2. CASE ~CheckIn(c)
    <3>1. ap_boot_flag' = ap_boot_flag
      BY <2>2 DEF ApRuns, Trampoline, ReadStack, ReadState, SetUp
    <3>2. ~Late /\ pc \in Waiting /\ ap_boot_flag => Order[i] # c
      BY <1>1 DEF IInv, FlagMeans
    <3>3. pc \in Waiting => Order[i] \in APs
      BY <1>0, OrderFacts DEF IInv, Current, TypeOK, Waiting
    <3>. QED
      BY <1>1, <1>2, <1>3, <3>1, <3>2, <3>3 DEF IInv, FlagMeans
  <2>. QED
    BY <2>1, <2>2
<1>9. Online'
  BY <1>1, <1>2, <1>3 DEF IInv, Online
<1>. QED
  BY <1>0, <1>4, <1>5, <1>6, <1>7, <1>8, <1>9, ApTypes, ApOwns DEF IInv

-----------------------------------------------------------------------------
(* Steps of the BSP that start no AP and report nothing: no AP moves.      *)

LEMMA MeetBspKeeps ==
    ASSUME IInv, MeetBsp
    PROVE  IInv'
<1>0. TypeOK /\ UNCHANGED apVars /\ UNCHANGED report /\ i \in Nat
  BY OrderFacts DEF IInv, TypeOK, MeetBsp, bspVars
<1>1. Late' = Late
  BY <1>0 DEF Late, apVars
<1>2. TypeOK'
  BY OrderFacts DEF IInv, TypeOK, MeetBsp, NextCore, BspTo, BspPc, apVars,
                    mailbox
<1>3. Fresh' /\ Unreported'
  BY <1>0, OrderFacts DEF IInv, TypeOK, Fresh, Unreported, Before, MeetBsp,
                          NextCore, BspTo, apVars
<1>4. Current' /\ Registered'
  BY <1>0, OrderFacts DEF IInv, TypeOK, Current, Registered, Waiting, MeetBsp,
                          NextCore, BspTo, apVars, mailbox
<1>5. OneAtATime' /\ FlagMeans'
  BY <1>0, <1>1, OrderFacts DEF IInv, TypeOK, Fresh, OneAtATime, FlagMeans,
                                Before, Waiting, MeetBsp, NextCore, BspTo,
                                apVars
<1>6. Online' /\ OwnBlocks'
  BY <1>0, <1>1 DEF IInv, Online, OwnBlocks, apVars
<1>. QED
  BY <1>2, <1>3, <1>4, <1>5, <1>6 DEF IInv

LEMMA BeginCoreKeeps ==
    ASSUME IInv, BeginCore
    PROVE  IInv'
<1>0. TypeOK /\ UNCHANGED apVars /\ UNCHANGED report /\ i \in Nat
  BY OrderFacts DEF IInv, TypeOK, BeginCore, bspVars
<1>1. Late' = Late
  BY <1>0 DEF Late, apVars
<1>2. TypeOK'
  BY OrderFacts DEF IInv, TypeOK, BeginCore, BspTo, BspPc, apVars, mailbox
<1>3. Fresh' /\ Unreported'
  BY <1>0, OrderFacts DEF IInv, TypeOK, Fresh, Unreported, Before, BeginCore,
                          BspTo, apVars
<1>4. Current' /\ Registered'
  BY <1>0, OrderFacts DEF IInv, TypeOK, Current, Registered, Waiting,
                          BeginCore, BspTo, apVars, mailbox
<1>5. OneAtATime' /\ FlagMeans'
  BY <1>0, <1>1, OrderFacts DEF IInv, TypeOK, Fresh, OneAtATime, FlagMeans,
                                Before, Waiting, BeginCore, BspTo, apVars
<1>6. Online' /\ OwnBlocks'
  BY <1>0, <1>1 DEF IInv, Online, OwnBlocks, apVars
<1>. QED
  BY <1>2, <1>3, <1>4, <1>5, <1>6 DEF IInv

LEMMA MailStackKeeps ==
    ASSUME IInv, MailStack
    PROVE  IInv'
<1>0. TypeOK /\ UNCHANGED apVars /\ UNCHANGED report /\ i \in Nat
  BY OrderFacts DEF IInv, TypeOK, MailStack, bspVars
<1>1. Late' = Late
  BY <1>0 DEF Late, apVars
<1>7. Order[i] \in APs
  BY OrderFacts DEF IInv, TypeOK, Current, MailStack
<1>2. TypeOK'
  BY <1>7, OrderFacts DEF IInv, TypeOK, MailStack, BspTo, BspPc, apVars, mailbox
<1>3. Fresh' /\ Unreported'
  BY <1>0, OrderFacts DEF IInv, TypeOK, Fresh, Unreported, Before, MailStack,
                          BspTo, apVars
<1>4. Current' /\ Registered'
  BY <1>0, OrderFacts DEF IInv, TypeOK, Current, Registered, Waiting,
                          MailStack, BspTo, apVars, mailbox
<1>5. OneAtATime' /\ FlagMeans'
  BY <1>0, <1>1, OrderFacts DEF IInv, TypeOK, Fresh, OneAtATime, FlagMeans,
                                Before, Waiting, MailStack, BspTo, apVars
<1>6. Online' /\ OwnBlocks'
  BY <1>0, <1>1 DEF IInv, Online, OwnBlocks, apVars
<1>. QED
  BY <1>2, <1>3, <1>4, <1>5, <1>6 DEF IInv

LEMMA MailStateKeeps ==
    ASSUME IInv, MailState
    PROVE  IInv'
<1>0. TypeOK /\ UNCHANGED apVars /\ UNCHANGED report /\ i \in Nat
  BY OrderFacts DEF IInv, TypeOK, MailState, bspVars
<1>1. Late' = Late
  BY <1>0 DEF Late, apVars
<1>7. Order[i] \in APs
  BY OrderFacts DEF IInv, TypeOK, Current, MailState
<1>2. TypeOK'
  BY <1>7, OrderFacts DEF IInv, TypeOK, MailState, BspTo, BspPc, apVars, mailbox
<1>3. Fresh' /\ Unreported'
  BY <1>0, OrderFacts DEF IInv, TypeOK, Fresh, Unreported, Before, MailState,
                          BspTo, apVars
<1>4. Current' /\ Registered'
  BY <1>0, OrderFacts DEF IInv, TypeOK, Current, Registered, Waiting,
                          MailState, BspTo, apVars, mailbox
<1>5. OneAtATime' /\ FlagMeans'
  BY <1>0, <1>1, OrderFacts DEF IInv, TypeOK, Fresh, OneAtATime, FlagMeans,
                                Before, Waiting, MailState, BspTo, apVars
<1>6. Online' /\ OwnBlocks'
  BY <1>0, <1>1 DEF IInv, Online, OwnBlocks, apVars
<1>. QED
  BY <1>2, <1>3, <1>4, <1>5, <1>6 DEF IInv

LEMMA SendInitKeeps ==
    ASSUME IInv, SendInit
    PROVE  IInv'
<1>0. TypeOK /\ UNCHANGED apVars /\ UNCHANGED report /\ i \in Nat
  BY OrderFacts DEF IInv, TypeOK, SendInit, bspVars
<1>1. Late' = Late
  BY <1>0 DEF Late, apVars
<1>2. TypeOK'
  BY OrderFacts DEF IInv, TypeOK, SendInit, BspTo, BspPc, apVars, mailbox
<1>3. Fresh' /\ Unreported'
  BY <1>0, OrderFacts DEF IInv, TypeOK, Fresh, Unreported, Before, SendInit,
                          BspTo, apVars
<1>4. Current' /\ Registered'
  BY <1>0, OrderFacts DEF IInv, TypeOK, Current, Registered, Waiting, SendInit,
                          BspTo, apVars, mailbox
<1>5. OneAtATime' /\ FlagMeans'
  BY <1>0, <1>1, OrderFacts DEF IInv, TypeOK, Fresh, OneAtATime, FlagMeans,
                                Before, Waiting, SendInit, BspTo, apVars
<1>6. Online' /\ OwnBlocks'
  BY <1>0, <1>1 DEF IInv, Online, OwnBlocks, apVars
<1>. QED
  BY <1>2, <1>3, <1>4, <1>5, <1>6 DEF IInv

LEMMA WaitKeeps ==
    ASSUME IInv, Wait
    PROVE  IInv'
<1>0. TypeOK /\ UNCHANGED apVars /\ UNCHANGED report /\ i \in Nat
  BY OrderFacts DEF IInv, TypeOK, Wait, bspVars
<1>1. Late' = Late
  BY <1>0 DEF Late, apVars
<1>2. TypeOK'
  BY OrderFacts DEF IInv, TypeOK, Wait, BspTo, BspPc, apVars, mailbox
<1>3. Fresh' /\ Unreported'
  BY <1>0, OrderFacts DEF IInv, TypeOK, Fresh, Unreported, Before, Wait,
                          BspTo, apVars
<1>4. Current' /\ Registered'
  BY <1>0, OrderFacts DEF IInv, TypeOK, Current, Registered, Waiting, Wait,
                          BspTo, apVars, mailbox
<1>5. OneAtATime' /\ FlagMeans'
  BY <1>0, <1>1, OrderFacts DEF IInv, TypeOK, Fresh, OneAtATime, FlagMeans,
                                Before, Waiting, Wait, BspTo, apVars
<1>6. Online' /\ OwnBlocks'
  BY <1>0, <1>1 DEF IInv, Online, OwnBlocks, apVars
<1>. QED
  BY <1>2, <1>3, <1>4, <1>5, <1>6 DEF IInv

LEMMA PollSeesFlagKeeps ==
    ASSUME IInv, PollSeesFlag
    PROVE  IInv'
<1>0. TypeOK /\ UNCHANGED apVars /\ UNCHANGED report /\ i \in Nat
  BY OrderFacts DEF IInv, TypeOK, PollSeesFlag, bspVars
<1>1. Late' = Late
  BY <1>0 DEF Late, apVars
<1>2. TypeOK'
  BY OrderFacts DEF IInv, TypeOK, PollSeesFlag, BspTo, BspPc, apVars, mailbox
<1>3. Fresh' /\ Unreported'
  BY <1>0, OrderFacts DEF IInv, TypeOK, Fresh, Unreported, Before,
                          PollSeesFlag, BspTo, apVars
<1>4. Current' /\ Registered'
  BY <1>0, OrderFacts DEF IInv, TypeOK, Current, Registered, Waiting,
                          PollSeesFlag, BspTo, apVars, mailbox
<1>5. OneAtATime' /\ FlagMeans'
  BY <1>0, <1>1, OrderFacts DEF IInv, TypeOK, Fresh, OneAtATime, FlagMeans,
                                Before, Waiting, PollSeesFlag, BspTo, apVars
<1>6. Online' /\ OwnBlocks'
  BY <1>0, <1>1 DEF IInv, Online, OwnBlocks, apVars
<1>. QED
  BY <1>2, <1>3, <1>4, <1>5, <1>6 DEF IInv

LEMMA PollTimesOutKeeps ==
    ASSUME IInv, PollTimesOut
    PROVE  IInv'
<1>0. TypeOK /\ UNCHANGED apVars /\ UNCHANGED report /\ i \in Nat
  BY OrderFacts DEF IInv, TypeOK, PollTimesOut, bspVars
<1>1. Late' = Late
  BY <1>0 DEF Late, apVars
<1>2. TypeOK'
  BY OrderFacts DEF IInv, TypeOK, PollTimesOut, BspTo, BspPc, apVars, mailbox
<1>3. Fresh' /\ Unreported'
  BY <1>0, OrderFacts DEF IInv, TypeOK, Fresh, Unreported, Before,
                          PollTimesOut, BspTo, apVars
<1>4. Current' /\ Registered'
  BY <1>0, OrderFacts DEF IInv, TypeOK, Current, Registered, Waiting,
                          PollTimesOut, BspTo, apVars, mailbox
<1>5. OneAtATime' /\ FlagMeans'
  BY <1>0, <1>1, OrderFacts DEF IInv, TypeOK, Fresh, OneAtATime, FlagMeans,
                                Before, Waiting, PollTimesOut, BspTo, apVars
<1>6. Online' /\ OwnBlocks'
  BY <1>0, <1>1 DEF IInv, Online, OwnBlocks, apVars
<1>. QED
  BY <1>2, <1>3, <1>4, <1>5, <1>6 DEF IInv

LEMMA OwnStateKeeps ==
    ASSUME IInv, OwnState
    PROVE  IInv'
<1>0. TypeOK /\ UNCHANGED apVars /\ UNCHANGED report /\ i \in Nat
  BY OrderFacts DEF IInv, TypeOK, OwnState, bspVars
<1>1. Late' = Late
  BY <1>0 DEF Late, apVars
<1>2. TypeOK'
  BY OrderFacts DEF IInv, TypeOK, OwnState, BspTo, BspPc, apVars, mailbox
<1>3. Fresh' /\ Unreported'
  BY <1>0, OrderFacts DEF IInv, TypeOK, Fresh, Unreported, Before, OwnState,
                          BspTo, apVars
<1>4. Current' /\ Registered'
  BY <1>0, OrderFacts DEF IInv, TypeOK, Current, Registered, Waiting,
                          OwnState, BspTo, apVars, mailbox
<1>5. OneAtATime' /\ FlagMeans'
  BY <1>0, <1>1, OrderFacts DEF IInv, TypeOK, Fresh, OneAtATime, FlagMeans,
                                Before, Waiting, OwnState, BspTo, apVars
<1>6. Online' /\ OwnBlocks'
  BY <1>0, <1>1 DEF IInv, Online, OwnBlocks, apVars
<1>. QED
  BY <1>2, <1>3, <1>4, <1>5, <1>6 DEF IInv

-----------------------------------------------------------------------------
(* Steps of the BSP that start an AP or report one. *)

LEMMA AllocateKeeps ==
    ASSUME IInv, Allocate
    PROVE  IInv'
<1>0. /\ TypeOK /\ UNCHANGED <<apVars, ap_boot_flag, mailbox, cores, bsp_core_idx>>
      /\ i \in Entries /\ pc = "alloc" /\ Order[i] \in APs
      /\ report[Order[i]] = "none" /\ ap[Order[i]] = "off"
  BY OrderFacts DEF IInv, TypeOK, Allocate, Current, Unreported, Fresh, Before
<1>1. CASE BspTo("mail_stack") /\ UNCHANGED <<i, report>>
  <2>1. Late' = Late
    BY <1>0, <1>1 DEF Late, apVars
  <2>2. TypeOK'
    BY <1>0, <1>1 DEF Allocate, TypeOK, BspTo, BspPc, apVars, mailbox
  <2>3. Fresh' /\ Unreported' /\ Current' /\ Registered'
    BY <1>0, <1>1 DEF IInv, Fresh, Unreported, Current, Registered, Before,
                      Waiting,
                      BspTo, apVars, mailbox
  <2>4. OneAtATime' /\ FlagMeans' /\ Online' /\ OwnBlocks'
    BY <1>0, <1>1, <2>1 DEF IInv, OneAtATime, FlagMeans, Online, OwnBlocks,
                            Waiting,
                            BspTo, apVars
  <2>. QED
    BY <2>2, <2>3, <2>4 DEF IInv
<1>2. CASE NextCore /\ report' = [report EXCEPT ![Order[i]] = "skipped"]
  <2>0. \A c \in APs : /\ c # Order[i] => report'[c] = report[c]
                       /\ c = Order[i] => report'[c] = "skipped"
    BY <1>0, <1>2 DEF TypeOK
  <2>1. Late' = Late
    BY <1>0, <2>0 DEF Late, apVars
  <2>2. TypeOK'
    <3>1. report' \in [APs -> {"none", "skipped", "online", "failed"}]
      BY <1>0, <1>2 DEF TypeOK
    <3>. QED
      BY <1>0, <1>2, <3>1, OrderFacts DEF Allocate, TypeOK, NextCore, BspTo, BspPc,
                                          apVars, mailbox
  <2>3. Fresh' /\ Unreported'
    <3>1. i' = i + 1 /\ i \in Nat
      BY <1>0, <1>2, OrderFacts DEF NextCore
    <3>. QED
      BY <1>0, <2>0, <3>1, OrderFacts DEF IInv, Fresh, Unreported, apVars
  <2>4. Current' /\ Registered'
    BY <1>0, <1>2, <2>0 DEF IInv, Current, Registered, Waiting, NextCore,
                            BspTo, apVars
  <2>5. OneAtATime' /\ FlagMeans' /\ Online' /\ OwnBlocks'
    BY <1>0, <1>2, <2>0, <2>1 DEF IInv, OneAtATime, FlagMeans, Online,
                                  OwnBlocks, Waiting,
                                  NextCore, BspTo, apVars
  <2>. QED
    BY <2>2, <2>3, <2>4, <2>5 DEF IInv
<1>. QED
  BY <1>1, <1>2 DEF Allocate

LEMMA SendSipiKeeps ==
    ASSUME IInv, SendSipi
    PROVE  IInv'
<1>0. /\ TypeOK /\ UNCHANGED <<i, cores, bsp_core_idx, report, ap_boot_flag, mailbox,
                               rsp, rsp0, self>>
      /\ i \in Entries /\ pc = "sipi" /\ pc' = "wait" /\ Order[i] \in APs
      /\ report[Order[i]] = "none" /\ ap[Order[i]] = "off" /\ Order[i] \in cores
  BY OrderFacts DEF IInv, TypeOK, SendSipi, BspTo, Current, Unreported, Fresh,
                    Before
<1>1. /\ ap' \in [APs -> ApPc]
      /\ \A c \in APs : c # Order[i] => ap'[c] = ap[c]
      /\ ap'[Order[i]] \in {"off", "tramp"}
  BY <1>0 DEF SendSipi, TypeOK, ApPc
<1>2. Late' = Late
  BY <1>0, <1>1 DEF Late
<1>3. TypeOK'
  BY <1>0, <1>1 DEF SendSipi, TypeOK, BspPc, mailbox
<1>4. Fresh' /\ Unreported'
  BY <1>0, <1>1, OrderFacts DEF IInv, Fresh, Unreported, Before
<1>5. Current' /\ Registered'
  BY <1>0, <1>1 DEF IInv, Current, Registered, Waiting, mailbox
<1>6. OneAtATime' /\ FlagMeans'
  BY <1>0, <1>1, <1>2 DEF IInv, OneAtATime, FlagMeans, Waiting
<1>7. Online' /\ OwnBlocks'
  BY <1>0, <1>1, <1>2 DEF IInv, Online, OwnBlocks
<1>. QED
  BY <1>3, <1>4, <1>5, <1>6, <1>7 DEF IInv

LEMMA CheckKeeps ==
    ASSUME IInv, Check
    PROVE  IInv'
<1>0. /\ TypeOK /\ UNCHANGED <<cores, bsp_core_idx, ap_boot_flag, mailbox, apVars>>
      /\ i \in Entries /\ i \in Nat /\ pc = "check" /\ Order[i] \in APs
      /\ i' = i + 1 /\ pc' \in {"own", "core"}
  BY OrderFacts DEF IInv, TypeOK, Check, NextCore, BspTo, Current, Waiting
<1>1. \A c \in APs : /\ c # Order[i] => report'[c] = report[c]
                     /\ c = Order[i] => report'[c] = IF ap_boot_flag THEN "online" ELSE "failed"
  BY <1>0 DEF Check, TypeOK
<1>2. report[Order[i]] = "none"
  BY <1>0, OrderFacts DEF IInv, Unreported, APs
<1>3. Late => Late'
  BY <1>0, <1>1, <1>2 DEF Late, apVars
<1>4. ~Late' => ap[Order[i]] \in {"off", "loop"}
  <2>1. ~Late' /\ ~ap_boot_flag => ap[Order[i]] = "off"
    BY <1>0, <1>1 DEF Late, apVars
  <2>2. ~Late' /\ ap_boot_flag => ap[Order[i]] = "loop"
    BY <1>0, <1>3 DEF IInv, FlagMeans, Waiting
  <2>. QED
    BY <2>1, <2>2
<1>5. TypeOK'
  <2>1. report' \in [APs -> {"none", "skipped", "online", "failed"}]
    BY <1>0 DEF Check, TypeOK
  <2>. QED
    BY <1>0, <2>1, OrderFacts DEF Check, NextCore, TypeOK, BspTo, BspPc,
                                  apVars, mailbox
<1>6. Fresh' /\ Unreported'
  BY <1>0, <1>1, OrderFacts DEF IInv, Fresh, Unreported, apVars
<1>7. Current' /\ Registered'
  BY <1>0, <1>1 DEF IInv, Current, Registered, Waiting, apVars
<1>8. OneAtATime' /\ FlagMeans'
  BY <1>0, <1>3, <1>4 DEF IInv, OneAtATime, FlagMeans, Waiting, apVars
<1>9. Online'
  BY <1>0, <1>1, <1>3 DEF IInv, Online, FlagMeans, Waiting, apVars
<1>10. OwnBlocks'
  BY <1>0, <1>3 DEF IInv, OwnBlocks, apVars
<1>. QED
  BY <1>5, <1>6, <1>7, <1>8, <1>9, <1>10 DEF IInv

-----------------------------------------------------------------------------
(* The LAPIC changes nothing but its delivery status. *)
LEMMA DeliveredKeeps ==
    ASSUME IInv, Delivered
    PROVE  IInv'
BY DEF Delivered, IInv, TypeOK, Fresh, Unreported, Current, Registered,
       OneAtATime, FlagMeans, Online, OwnBlocks, Late, mailbox, apVars

LEMMA StutterKeeps ==
    ASSUME IInv, UNCHANGED vars
    PROVE  IInv'
BY DEF IInv, TypeOK, Fresh, Unreported, Current, Registered, OneAtATime,
       FlagMeans,
       Online, OwnBlocks, Late, vars, bspVars, mailbox, apVars

LEMMA Inductive == Spec => []IInv
<1>1. Init => IInv
  BY InitHolds
<1>2. IInv /\ [Next]_vars => IInv'
  <2>. SUFFICES ASSUME IInv, [Next]_vars PROVE IInv'
    OBVIOUS
  <2>1. CASE BspStep
    BY <2>1, MeetBspKeeps, BeginCoreKeeps, AllocateKeeps, MailStackKeeps, MailStateKeeps,
       SendInitKeeps, SendSipiKeeps, WaitKeeps, PollSeesFlagKeeps, PollTimesOutKeeps, CheckKeeps,
       OwnStateKeeps DEF BspStep
  <2>2. ASSUME NEW c \in APs, ApRuns(c)
        PROVE  IInv'
    BY <2>2, ApKeeps
  <2>3. CASE Started \/ UNCHANGED vars
    BY <2>3, StutterKeeps DEF Started
  <2>4. CASE Delivered
    BY <2>4, DeliveredKeeps
  <2>. QED
    BY <2>1, <2>2, <2>3, <2>4 DEF Next
<1>. QED
  BY <1>1, <1>2, PTL DEF Spec

(* Type correctness: in particular the loop of smp_init never reads past   *)
(* the table of processors.                                                *)
THEOREM TypeCorrect == Spec => []TypeOK
<1>1. IInv => TypeOK
  BY DEF IInv
<1>. QED
  BY <1>1, Inductive, PTL

(* However many processors there are, as long as none is late each runs on *)
(* the stack and writes the core_state that smp_init allocated for it.     *)
THEOREM OwnBlocksHolds == Spec => []OwnBlocks
<1>1. IInv => OwnBlocks
  BY DEF IInv
<1>. QED
  BY <1>1, Inductive, PTL

(* As long as no AP is late, no two processors are in avmf_alloc at once.  *)
THEOREM AllocAloneHolds == Spec => []AllocAlone
<1>1. IInv => AllocAlone
  BY DEF IInv, OneAtATime, AllocAlone, Waiting
<1>. QED
  BY <1>1, Inductive, PTL

(* As long as no AP is late, the log tells the truth about each AP, and an *)
(* AP in its loop is in the table.                                         *)
THEOREM ReportTrueHolds == Spec => []ReportTrue
<1>1. IInv => ReportTrue
  <2>. SUFFICES ASSUME IInv, ~Late, NEW c \in APs
                PROVE  /\ report[c] = "online" => ap[c] = "loop"
                       /\ ap[c] = "loop" => c \in cores /\ report[c] \in {"none", "online"}
    BY DEF ReportTrue
  <2>1. report[c] = "online" => ap[c] = "loop"
    BY DEF IInv, Online
  <2>2. ap[c] = "loop" => c \in cores /\ report[c] # "skipped" /\ report[c] # "failed"
    BY DEF IInv, Registered, Late
  <2>3. report[c] \in {"none", "skipped", "online", "failed"}
    BY DEF IInv, TypeOK
  <2>. QED
    BY <2>1, <2>2, <2>3
<1>. QED
  BY <1>1, Inductive, PTL
-----------------------------------------------------------------------------
(* The table of cores *)

\* The entry at hand is registered, and not yet reported.
Registering == {"init", "sipi"} \cup Waiting

TableInv ==
    /\ \A k \in Entries : k < i /\ Order[k] = Bsp => bsp_core_idx = k
    /\ \A c \in APs :
          c \in cores <=> \/ report[c] \in {"online", "failed"}
                          \/ pc \in Registering /\ c = Order[i]

LEMMA TableKept == IInv /\ TableInv /\ [Next]_vars => TableInv'
<1>. SUFFICES ASSUME IInv, TableInv, [Next]_vars PROVE TableInv'
  OBVIOUS
<1>0. TypeOK /\ i \in Nat
  BY OrderFacts DEF IInv, TypeOK
<1>1. ASSUME UNCHANGED <<i, cores, report, bsp_core_idx>>,
             pc' \in Registering <=> pc \in Registering
      PROVE  TableInv'
  BY <1>1 DEF TableInv
<1>2. CASE MeetBsp
  <2>1. /\ i \in Entries /\ Order[i] = Bsp /\ i' = i + 1 /\ bsp_core_idx' = i
        /\ cores' = cores /\ report' = report
        /\ pc \notin Registering /\ pc' \notin Registering
    BY <1>0, <1>2 DEF MeetBsp, NextCore, BspTo, TypeOK, Registering, Waiting
  <2>2. \A k \in Entries : k < i' /\ Order[k] = Bsp => bsp_core_idx' = k
    BY <1>0, <2>1, OrderFacts
  <2>. QED
    BY <2>1, <2>2 DEF TableInv
<1>3. ASSUME Allocate, NextCore, report' = [report EXCEPT ![Order[i]] = "skipped"]
      PROVE  TableInv'
  <2>1. /\ i \in Entries /\ Order[i] # Bsp /\ Order[i] \in APs /\ i' = i + 1
        /\ bsp_core_idx' = bsp_core_idx
        /\ cores' = cores
        /\ pc \notin Registering /\ pc' \notin Registering
    BY <1>0, <1>3, OrderFacts DEF Allocate, NextCore, BspTo, TypeOK, Registering, Waiting,
                                  IInv, Current
  <2>2. report[Order[i]] = "none"
    BY <1>0, <2>1 DEF IInv, Unreported
  <2>3. \A c \in APs : report'[c] = IF c = Order[i] THEN "skipped" ELSE report[c]
    BY <1>0, <1>3 DEF TypeOK
  <2>4. \A k \in Entries : k < i' => k < i \/ k = i
    BY <1>0, <2>1, OrderFacts
  <2>. QED
    BY <2>1, <2>2, <2>3, <2>4 DEF TableInv
<1>4. CASE MailState
  <2>1. /\ i' = i /\ bsp_core_idx' = bsp_core_idx /\ report' = report
        /\ cores' = cores \cup {Order[i]}
        /\ pc \notin Registering /\ pc' \in Registering
    BY <1>4 DEF MailState, BspTo, Registering, Waiting
  <2>. QED
    BY <2>1 DEF TableInv
<1>5. CASE Check
  <2>1. /\ i \in Entries /\ Order[i] # Bsp /\ Order[i] \in APs /\ i' = i + 1
        /\ bsp_core_idx' = bsp_core_idx /\ cores' = cores
        /\ pc \in Registering /\ pc' \notin Registering
        /\ Order[i] \in cores
    BY <1>0, <1>5, OrderFacts DEF Check, NextCore, BspTo, TypeOK, Registering, Waiting,
                                  IInv, Current
  <2>2. \A c \in APs : /\ c # Order[i] => report'[c] = report[c]
                       /\ c = Order[i] => report'[c] \in {"online", "failed"}
    BY <1>0, <1>5 DEF Check, TypeOK
  <2>3. \A k \in Entries : k < i' => k < i \/ k = i
    BY <1>0, <2>1, OrderFacts
  <2>. QED
    BY <2>1, <2>2, <2>3 DEF TableInv
<1>6. CASE OwnState
  <2>1. /\ i' = i /\ bsp_core_idx' = bsp_core_idx /\ report' = report
        /\ cores' \subseteq cores \cup {Order[bsp_core_idx]} /\ cores \subseteq cores'
        /\ pc \notin Registering /\ pc' \notin Registering /\ i = Len(Order) + 1
    BY <1>0, <1>6 DEF OwnState, BspTo, Registering, Waiting, TypeOK
  <2>2. PICK k \in Entries : Order[k] = Bsp
    BY OrderAssumption DEF Ids
  <2>3. Order[bsp_core_idx] = Bsp
    BY <2>1, <2>2, OrderFacts DEF TableInv
  <2>4. \A c \in APs : c \in cores' <=> c \in cores
    BY <2>1, <2>3 DEF APs
  <2>. QED
    BY <2>1, <2>4 DEF TableInv
<1>7. ASSUME BeginCore \/ MailStack \/ SendInit \/ SendSipi \/ Wait \/ PollSeesFlag \/ PollTimesOut
      PROVE  TableInv'
  BY <1>1, <1>7 DEF BeginCore, MailStack, SendInit, SendSipi, Wait, PollSeesFlag, PollTimesOut, BspTo,
                    Registering, Waiting
<1>9. ASSUME Allocate, BspTo("mail_stack"), UNCHANGED <<i, report>> PROVE TableInv'
  BY <1>1, <1>9 DEF Allocate, BspTo, Registering, Waiting
<1>10. ASSUME NEW c \in APs, ApRuns(c) PROVE TableInv'
  BY <1>0, <1>1, <1>10, ApStaysLate DEF bspVars
<1>11. CASE Started \/ UNCHANGED vars
  BY <1>1, <1>11 DEF Started, vars, bspVars
<1>13. CASE Delivered
  BY <1>1, <1>13 DEF Delivered
<1>12. CASE Allocate
  BY <1>3, <1>9, <1>12 DEF Allocate
<1>. QED
  BY <1>2, <1>4, <1>5, <1>6, <1>7, <1>10, <1>11, <1>12, <1>13 DEF Next, BspStep

(* When smp_init has returned, smp_push_task_bsp finds the BSP under its   *)
(* index wherever the MADT lists it, and the table holds the cores whose   *)
(* blocks were allocated and no other.                                     *)
THEOREM TableTrueHolds == Spec => []TableTrue
<1>1. Init => TableInv
  <2>. SUFFICES ASSUME Init PROVE TableInv
    OBVIOUS
  <2>1. \A k \in Entries : ~(k < i)
    BY OrderFacts DEF Init
  <2>. QED
    BY <2>1 DEF Init, TableInv, Registering, Waiting
<1>2. IInv /\ TableInv => TableTrue
  <2>. SUFFICES ASSUME IInv, TableInv, pc = "done" PROVE
                    /\ \A c \in APs : c \in cores <=> report[c] \in {"online", "failed"}
                    /\ Order[bsp_core_idx] = Bsp
    BY DEF TableTrue
  <2>1. PICK k \in Entries : Order[k] = Bsp
    BY OrderAssumption DEF Ids
  <2>2. i = Len(Order) + 1
    BY DEF IInv, TypeOK
  <2>3. Order[bsp_core_idx] = Bsp
    BY <2>1, <2>2, OrderFacts DEF TableInv
  <2>. QED
    BY <2>3 DEF TableInv, Registering, Waiting
<1>. QED
  BY <1>1, <1>2, TableKept, Inductive, PTL DEF Spec
=============================================================================
