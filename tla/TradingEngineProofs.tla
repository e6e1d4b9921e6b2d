------------------------- MODULE TradingEngineProofs -------------------------
(***************************************************************************)
(* What holds of TradingEngine for every number of commands: nothing is    *)
(* lost, a stop drains the queue, and the double buffer keeps writer and   *)
(* reader apart.                                                           *)
(***************************************************************************)
EXTENDS TradingEngine, TLAPS

Updating == main \in {"bids", "asks", "write", "publish"}

\* How far the life of the engine has got: nothing runs before Start, main
\* requests the stop once, the drain follows it, and the end of Run the drain.
StopInv ==
  /\ main = "new" => engine = "none"
  /\ stop_requested => main \in {"joining", "ended"}
  /\ engine \in {"drain", "drain_apply", "done"} => stop_requested
  /\ acceptedAtStop <= accepted
  /\ StopDrains

\* The snapshot that main works on is not the active one, and which snapshots
\* hold the copy made last.
BufferInv ==
  /\ Updating => inactive_idx = 1 - m_ActiveSnapshot
  /\ main = "publish" => m_Snapshots[inactive_idx] = snapshot
  /\ ~Updating => m_Snapshots[m_ActiveSnapshot] = snapshot

\* A copy that is not torn is of the newest snapshot published, or of the one
\* before it, which nobody has assigned again.
CopyInv ==
  viewer = "copy" =>
    \/ behind = 0 /\ active = m_ActiveSnapshot
    \/ /\ behind = 1 /\ active = 1 - m_ActiveSnapshot
       /\ main \notin {"write", "publish"}

EngineInductive == TypeOK /\ NothingLost /\ StopInv /\ BufferInv /\ CopyInv

LEMMA InitEngine == Init => EngineInductive
<1> SUFFICES ASSUME Init PROVE EngineInductive
  OBVIOUS
<1>1. TypeOK
  BY EngineAssumption DEF Init, TypeOK, Applying, Command, Snapshots, Version, Empty, NoCommand,
         MostBehind
<1>2. NothingLost
  BY DEF Init, NothingLost, Applying, InHand
<1>3. StopInv
  BY DEF Init, StopInv, StopDrains
<1>4. BufferInv
  BY DEF Init, BufferInv, Updating
<1>5. CopyInv
  BY DEF Init, CopyInv
<1> QED BY <1>1, <1>2, <1>3, <1>4, <1>5 DEF EngineInductive

-----------------------------------------------------------------------------
(* The clients and the engine thread.                                      *)

\* A push puts the next number behind the queue.
LEMMA PushQueue ==
  ASSUME EngineInductive, Push
  PROVE  TypeOK' /\ NothingLost'
<1>1. /\ TypeOK /\ NothingLost /\ accepted < MaxCommands /\ accepted' = accepted + 1
      /\ m_CommandQueue' = Append(m_CommandQueue, accepted + 1)
      /\ UNCHANGED <<engineVars, stopVars, mainVars, viewVars>>
  BY DEF EngineInductive, Push
<1>2. accepted' \in Command /\ accepted' \in 0 .. MaxCommands
  BY <1>1, EngineAssumption DEF TypeOK, Command
<1>3. m_CommandQueue' \in Seq(Command)
  BY <1>1, <1>2 DEF TypeOK
<1>4. TypeOK'
  BY <1>1, <1>2, <1>3 DEF TypeOK, Applying, engineVars, stopVars, mainVars, viewVars
<1>5. NothingLost'
  <2>1. /\ applied' = applied /\ cmd' = cmd /\ Applying' = Applying /\ InHand' = InHand
        /\ InHand \in {0, 1} /\ Len(applied) \in Nat /\ accepted \in Nat
    BY <1>1 DEF TypeOK, Applying, InHand, engineVars
  <2>2. /\ Len(m_CommandQueue') = Len(m_CommandQueue) + 1
        /\ Len(m_CommandQueue) \in Nat
        /\ \A i \in DOMAIN m_CommandQueue' :
             IF i \in DOMAIN m_CommandQueue THEN m_CommandQueue'[i] = m_CommandQueue[i]
             ELSE i = Len(m_CommandQueue) + 1 /\ m_CommandQueue'[i] = accepted + 1
    BY <1>1, EngineAssumption DEF TypeOK
  <2>3. \A i \in DOMAIN m_CommandQueue' : m_CommandQueue'[i] = Len(applied) + InHand + i
    BY <1>1, <2>1, <2>2 DEF NothingLost
  <2> QED BY <1>1, <2>1, <2>2, <2>3 DEF NothingLost
<1> QED BY <1>4, <1>5

\* try_pop takes the next number into the hand, or finds that there is none.
LEMMA PopQueue ==
  ASSUME EngineInductive, Pop \/ DrainPop
  PROVE  TypeOK' /\ NothingLost'
<1>1. /\ TypeOK /\ NothingLost /\ ~Applying /\ processed_any' \in BOOLEAN
      /\ UNCHANGED <<accepted, applied, stopVars, mainVars, viewVars>>
  BY DEF EngineInductive, Pop, DrainPop, TryPop, Applying, TypeOK
<1>2. CASE m_CommandQueue = <<>>
  <2>1. /\ engine' \in {"loop", "sleep", "done"} /\ cmd' = cmd
        /\ m_CommandQueue' = m_CommandQueue
    BY <1>2 DEF Pop, DrainPop, TryPop
  <2>2. TypeOK'
    BY <1>1, <2>1 DEF TypeOK, Applying, stopVars, mainVars, viewVars
  <2>3. NothingLost'
    BY <1>1, <2>1 DEF TypeOK, NothingLost, Applying, InHand
  <2> QED BY <2>2, <2>3
<1>3. CASE m_CommandQueue # <<>>
  <2>1. /\ engine' \in {"apply", "drain_apply"} /\ cmd' = Head(m_CommandQueue)
        /\ m_CommandQueue' = Tail(m_CommandQueue)
    BY <1>3 DEF Pop, DrainPop, TryPop
  <2>2. /\ cmd' = m_CommandQueue[1] /\ cmd' \in Command /\ m_CommandQueue' \in Seq(Command)
        /\ Len(m_CommandQueue') = Len(m_CommandQueue) - 1
        /\ \A i \in DOMAIN m_CommandQueue' : /\ i + 1 \in DOMAIN m_CommandQueue
                                             /\ m_CommandQueue'[i] = m_CommandQueue[i + 1]
        /\ 1 \in DOMAIN m_CommandQueue
    BY <1>1, <1>3, <2>1 DEF TypeOK
  <2>3. TypeOK'
    BY <1>1, <2>1, <2>2 DEF TypeOK, Applying, stopVars, mainVars, viewVars
  <2>4. NothingLost'
    BY <1>1, <2>1, <2>2 DEF TypeOK, NothingLost, Applying, InHand
  <2> QED BY <2>3, <2>4
<1> QED BY <1>2, <1>3

\* A command in the hand goes to the end of those applied.
LEMMA ApplyQueue ==
  ASSUME EngineInductive, ApplyReturns \/ DrainApplyReturns
  PROVE  TypeOK' /\ NothingLost'
<1>1. /\ TypeOK /\ NothingLost /\ Applying /\ engine' \in {"pop", "drain"}
      /\ applied' = Append(applied, cmd)
      /\ UNCHANGED <<cmd, processed_any, queueVars, stopVars, mainVars, viewVars>>
  BY DEF EngineInductive, ApplyReturns, DrainApplyReturns, Applying
<1>2. applied' \in Seq(Command) /\ ~Applying'
  BY <1>1 DEF TypeOK, Applying
<1>3. TypeOK'
  BY <1>1, <1>2 DEF TypeOK, queueVars, stopVars, mainVars, viewVars
<1>4. NothingLost'
  BY <1>1, <1>2 DEF TypeOK, NothingLost, InHand, queueVars
<1> QED BY <1>3, <1>4

LEMMA LoopQueue ==
  ASSUME EngineInductive, CheckStop \/ Wake
  PROVE  TypeOK' /\ NothingLost'
<1>1. /\ TypeOK /\ NothingLost /\ ~Applying /\ engine' \in {"pop", "drain", "loop"}
      /\ processed_any' \in BOOLEAN
      /\ UNCHANGED <<cmd, applied, queueVars, stopVars, mainVars, viewVars>>
  BY DEF EngineInductive, CheckStop, Wake, Applying, TypeOK
<1>2. TypeOK'
  BY <1>1 DEF TypeOK, Applying, queueVars, stopVars, mainVars, viewVars
<1>3. NothingLost'
  BY <1>1 DEF NothingLost, Applying, InHand, queueVars
<1> QED BY <1>2, <1>3

\* Neither the clients nor the engine thread touch what main and the viewer
\* own, and the engine thread leaves its loop on a request only.
LEMMA EngineStop ==
  ASSUME EngineInductive, TypeOK', NothingLost', Push \/ Run
  PROVE  StopInv' /\ BufferInv' /\ CopyInv'
<1>1. /\ TypeOK /\ NothingLost /\ StopInv /\ BufferInv /\ CopyInv
      /\ UNCHANGED <<stopVars, mainVars, viewVars>>
  BY DEF EngineInductive, Push, Run, CheckStop, Pop, TryPop, ApplyReturns, Wake, DrainPop,
         DrainApplyReturns
<1>2. BufferInv' /\ CopyInv'
  BY <1>1 DEF BufferInv, CopyInv, Updating, mainVars, viewVars
<1>3. accepted <= accepted' /\ accepted \in Nat /\ accepted' \in Nat
  <2>1. accepted \in Nat
    BY <1>1, EngineAssumption DEF TypeOK
  <2>2. CASE Push
    BY <2>1, <2>2 DEF Push
  <2>3. CASE Run
    <3>1. accepted' = accepted
      BY <2>3 DEF Run, CheckStop, Pop, TryPop, ApplyReturns, Wake, DrainPop,
         DrainApplyReturns, queueVars
    <3> QED BY <2>1, <3>1
  <2> QED BY <2>2, <2>3
<1>4. engine' \in {"drain", "drain_apply", "done"} => stop_requested
  BY <1>1 DEF StopInv, Push, Run, CheckStop, Pop, TryPop, ApplyReturns, Wake, DrainPop,
         DrainApplyReturns, engineVars
<1>5. acceptedAtStop' <= accepted' /\ acceptedAtStop' = acceptedAtStop
  BY <1>1, <1>3 DEF StopInv, TypeOK, stopVars
<1>6. StopDrains'
  <2>1. CASE engine = "done"
    <3>1. engine' = engine /\ applied' = applied
      BY <2>1 DEF Push, Run, CheckStop, Pop, TryPop, ApplyReturns, Wake, DrainPop,
         DrainApplyReturns, engineVars
    <3> QED BY <1>1, <3>1 DEF StopInv, StopDrains, stopVars
  <2>2. CASE engine # "done" /\ engine' = "done"
    <3>1. m_CommandQueue' = <<>> /\ ~Applying' /\ stop_requested'
      BY <1>1, <1>4, <2>2 DEF Push, Run, CheckStop, Pop, TryPop, ApplyReturns, Wake, DrainPop,
         DrainApplyReturns, engineVars, Applying, stopVars
    <3>2. Len(m_CommandQueue') = 0 /\ Len(applied') \in Nat
      BY <3>1 DEF TypeOK
    <3>3. accepted' = Len(applied')
      BY <3>1, <3>2 DEF NothingLost, InHand
    <3> QED BY <1>5, <3>1, <3>3 DEF StopDrains
  <2>3. CASE engine' # "done"
    BY <2>3 DEF StopDrains
  <2> QED BY <2>1, <2>2, <2>3
<1>7. main' = "new" => engine' = "none"
  BY <1>1 DEF StopInv, Push, Run, CheckStop, Pop, TryPop, ApplyReturns, Wake, DrainPop,
         DrainApplyReturns, engineVars, mainVars
<1> QED BY <1>1, <1>2, <1>4, <1>5, <1>6, <1>7 DEF StopInv, stopVars, mainVars

-----------------------------------------------------------------------------
(* Main and the viewer.                                                    *)

LEMMA CopiesAreVersions ==
  TypeOK => VersionNow \in Version /\ \A v \in Version : Copied(v) \in Version
  BY DEF TypeOK, VersionNow, Version, Copied, Torn

\* Start and the steps of UpdateSnapshot keep every kind.
LEMMA MainTypes ==
  ASSUME TypeOK, Main
  PROVE  TypeOK'
<1>1. VersionNow \in Version /\ \A v \in Version : Copied(v) \in Version
  BY CopiesAreVersions
<1>2. CASE Start
  BY <1>2 DEF Start, TypeOK, Applying, queueVars, stopVars, viewVars
<1>3. CASE UpdateSnapshot
  BY <1>1, <1>3 DEF UpdateSnapshot, TypeOK, Applying, Snapshots, queueVars, engineVars,
         stopVars, viewVars
<1>4. CASE BidsCopied
  BY <1>1, <1>4 DEF BidsCopied, TypeOK, Applying, Snapshots, queueVars, engineVars, stopVars,
         viewVars
<1>5. CASE AsksCopied
  BY <1>1, <1>5 DEF AsksCopied, TypeOK, Applying, Snapshots, queueVars, engineVars, stopVars
<1>6. CASE Written
  BY <1>6 DEF Written, TypeOK, Applying, queueVars, engineVars, stopVars, viewVars
<1>7. CASE Publish
  BY <1>7 DEF Publish, OneMoreBehind, MostBehind, TypeOK, Applying, queueVars, engineVars,
         stopVars
<1>8. CASE Stop
  BY <1>8 DEF Stop, TypeOK, Applying, queueVars, engineVars, viewVars
<1>9. CASE Joined
  BY <1>9 DEF Joined, TypeOK, Applying, queueVars, engineVars, stopVars, viewVars
<1> QED BY <1>2, <1>3, <1>4, <1>5, <1>6, <1>7, <1>8, <1>9 DEF Main

\* Main requests the stop when it is idle, and no drain has begun before.
LEMMA MainStop ==
  ASSUME EngineInductive, Main
  PROVE  NothingLost' /\ StopInv'
<1>1. /\ TypeOK /\ NothingLost /\ StopInv
      /\ UNCHANGED <<queueVars, cmd, processed_any, applied>>
      /\ UNCHANGED engine \/ Start
  BY DEF EngineInductive, Main, Start, UpdateSnapshot, BidsCopied, AsksCopied, Written,
         Publish, Stop, Joined, engineVars
<1>2. CASE Start
  <2>1. /\ engine' = "loop" /\ ~stop_requested /\ ~Applying /\ main' = "idle"
        /\ UNCHANGED stopVars
    BY <1>1, <1>2 DEF Start, StopInv, Applying
  <2> QED BY <1>1, <2>1 DEF NothingLost, InHand, Applying, StopInv, StopDrains, queueVars,
         stopVars
<1>3. CASE Stop
  BY <1>1, <1>3, EngineAssumption DEF Stop, TypeOK, NothingLost, InHand, Applying, StopInv,
         StopDrains, queueVars, engineVars
<1>4. CASE ~Start /\ ~Stop
  <2>1. /\ UNCHANGED <<engine, stopVars>> /\ main' # "new"
        /\ stop_requested => main' = "ended"
    BY <1>1, <1>4 DEF StopInv, Main, UpdateSnapshot, BidsCopied, AsksCopied, Written,
         Publish, Joined, engineVars
  <2> QED BY <1>1, <2>1 DEF NothingLost, InHand, Applying, StopInv, StopDrains, queueVars,
         stopVars
<1> QED BY <1>2, <1>3, <1>4

\* UpdateSnapshot fills the inactive snapshot and then makes it the active one.
LEMMA MainBuffer ==
  ASSUME EngineInductive, Main
  PROVE  BufferInv'
<1>1. /\ inactive_idx \in {0, 1} /\ m_ActiveSnapshot \in {0, 1} /\ BufferInv
      /\ DOMAIN m_Snapshots = {0, 1}
  BY DEF EngineInductive, TypeOK
<1>2. CASE Start \/ Stop \/ Joined
  <2>1. ~Updating /\ ~Updating'
    BY <1>2 DEF Start, Stop, Joined, Updating
  <2>2. UNCHANGED <<snapshot, m_Snapshots, m_ActiveSnapshot>> /\ main' # "publish"
    BY <1>2 DEF Start, Stop, Joined
  <2> QED BY <1>1, <2>1, <2>2 DEF BufferInv
<1>3. CASE UpdateSnapshot
  BY <1>1, <1>3 DEF UpdateSnapshot, BufferInv, Updating
<1>4. CASE BidsCopied \/ AsksCopied
  BY <1>1, <1>4 DEF BidsCopied, AsksCopied, BufferInv, Updating
<1>5. CASE Written
  <2>1. /\ main' = "publish" /\ Updating /\ UNCHANGED <<inactive_idx, m_ActiveSnapshot, snapshot>>
        /\ m_Snapshots' = [m_Snapshots EXCEPT ![inactive_idx] = snapshot]
    BY <1>5 DEF Written, Updating
  <2>2. m_Snapshots'[inactive_idx'] = snapshot'
    BY <1>1, <2>1
  <2> QED BY <1>1, <2>1, <2>2 DEF BufferInv, Updating
<1>6. CASE Publish
  BY <1>1, <1>6 DEF Publish, BufferInv, Updating
<1> QED BY <1>2, <1>3, <1>4, <1>5, <1>6 DEF Main

\* A copy under way gets old by a publication, and torn by the assignment.
LEMMA MainCopy ==
  ASSUME EngineInductive, Main
  PROVE  CopyInv'
<1>1. /\ inactive_idx \in {0, 1} /\ m_ActiveSnapshot \in {0, 1} /\ behind \in 0 .. MostBehind
      /\ CopyInv /\ (Updating => inactive_idx = 1 - m_ActiveSnapshot)
  BY DEF EngineInductive, TypeOK, BufferInv
<1>2. CASE Start \/ UpdateSnapshot \/ BidsCopied \/ Stop \/ Joined
  <2>1. /\ UNCHANGED <<viewVars, m_ActiveSnapshot>>
        /\ main' \notin {"write", "publish"}
    BY <1>2 DEF Start, UpdateSnapshot, BidsCopied, Stop, Joined
  <2> QED BY <1>1, <2>1 DEF CopyInv, viewVars
<1>3. CASE AsksCopied
  <2>1. /\ main = "asks" /\ main' = "write" /\ UNCHANGED <<active, behind, m_ActiveSnapshot>>
        /\ viewer' = "copy" => viewer = "copy" /\ active # inactive_idx
    BY <1>3 DEF AsksCopied, Overwrites
  <2> QED BY <1>1, <2>1 DEF CopyInv, Updating
<1>4. CASE Written
  BY <1>1, <1>4 DEF Written, CopyInv, viewVars
<1>5. CASE Publish
  <2>1. /\ main = "publish" /\ main' = "idle" /\ UNCHANGED <<viewer, active>>
        /\ m_ActiveSnapshot' = 1 - m_ActiveSnapshot /\ (behind = 0 => behind' = 1)
    BY <1>1, <1>5 DEF Publish, OneMoreBehind, MostBehind, Updating
  <2> QED BY <1>1, <2>1 DEF CopyInv
<1> QED BY <1>2, <1>3, <1>4, <1>5 DEF Main

LEMMA ViewerEngine ==
  ASSUME EngineInductive, Viewer \/ UNCHANGED vars
  PROVE  EngineInductive'
<1>1. UNCHANGED <<queueVars, engineVars, stopVars, mainVars>>
  BY DEF Viewer, LoadActive, StartCopy, ActiveCopied, vars
<1>2. TypeOK'
  <2>1. TypeOK
    BY DEF EngineInductive
  <2>2. CASE LoadActive
    <3>1. /\ viewer' \in {"copy", "torn"} /\ active' \in {0, 1} /\ shown' = shown
          /\ behind' \in 0 .. MostBehind
      BY <2>1, <2>2 DEF TypeOK, LoadActive, StartCopy, MostBehind
    <3> QED BY <1>1, <2>1, <3>1 DEF TypeOK, Applying, queueVars, engineVars, stopVars, mainVars
  <2>3. CASE ActiveCopied
    <3>1. /\ m_Snapshots[active].bids \in Version /\ m_Snapshots[active].asks \in Version
          /\ shown.bids \in Nat /\ shown.asks \in Nat
      BY <2>1 DEF TypeOK, Snapshots
    <3>2. \A v \in Version, w \in Nat : Fresh(v, w) \in Nat
      BY DEF Fresh, Version, Torn
    <3>3. shown' \in [bids : Nat, asks : Nat]
      BY <2>1, <2>3, <3>1, <3>2 DEF ActiveCopied, TypeOK
    <3>4. viewer' = "idle" /\ UNCHANGED <<active, behind>>
      BY <2>3 DEF ActiveCopied
    <3> QED BY <1>1, <2>1, <3>3, <3>4
          DEF TypeOK, Applying, queueVars, engineVars, stopVars, mainVars
  <2>4. CASE UNCHANGED vars
    BY <2>1, <2>4 DEF TypeOK, Applying, queueVars, engineVars, stopVars, mainVars, viewVars, vars
  <2> QED BY <2>2, <2>3, <2>4 DEF Viewer
<1>3. NothingLost' /\ StopInv'
  BY <1>1 DEF EngineInductive, NothingLost, InHand, Applying, StopInv, StopDrains, queueVars,
         engineVars, stopVars, mainVars
<1>4. BufferInv'
  BY <1>1 DEF EngineInductive, BufferInv, Updating, mainVars
<1>5. CopyInv'
  <2>1. /\ UNCHANGED <<main, m_ActiveSnapshot, inactive_idx>> /\ CopyInv
        /\ Updating => inactive_idx = 1 - m_ActiveSnapshot
        /\ behind \in 0 .. MostBehind
    BY <1>1 DEF EngineInductive, BufferInv, TypeOK, mainVars
  <2>2. CASE LoadActive
    <3>1. PICK b \in 0 .. behind : StartCopy(b)
      BY <2>2 DEF LoadActive
    <3>2. CASE ~Overwritten(active', b)
      <4>1. b \in {0, 1} /\ behind' = b
        BY <2>1, <3>1, <3>2 DEF StartCopy, Overwritten, MostBehind
      <4>2. CASE b = 0
        BY <2>1, <3>1, <4>1, <4>2 DEF StartCopy, CopyInv
      <4>3. CASE b = 1
        <5>1. active' = 1 - m_ActiveSnapshot
          BY <3>1, <4>3 DEF StartCopy
        <5>2. main \notin {"write", "publish"}
          BY <2>1, <3>2, <4>3, <5>1 DEF Overwritten, Updating
        <5> QED BY <2>1, <4>1, <4>3, <5>1, <5>2 DEF CopyInv
      <4> QED BY <4>1, <4>2, <4>3
    <3>3. CASE Overwritten(active', b)
      BY <3>1, <3>3 DEF StartCopy, CopyInv
    <3> QED BY <3>2, <3>3
  <2>3. CASE ActiveCopied
    BY <2>3 DEF ActiveCopied, CopyInv
  <2>4. CASE UNCHANGED vars
    BY <2>1, <2>4 DEF CopyInv, vars, viewVars
  <2> QED BY <2>2, <2>3, <2>4 DEF Viewer
<1> QED BY <1>2, <1>3, <1>4, <1>5 DEF EngineInductive

-----------------------------------------------------------------------------
\* The inductive invariant of the engine: kinds, the order of the commands,
\* how far the stop has got, and which snapshot is whose.
THEOREM EngineInvariant == Spec => []EngineInductive
<1>1. Init => EngineInductive
  BY InitEngine
<1>2. EngineInductive /\ [Next]_vars => EngineInductive'
  <2> SUFFICES ASSUME EngineInductive, [Next]_vars PROVE EngineInductive'
    OBVIOUS
  <2>1. CASE Push \/ Run
    <3>1. TypeOK' /\ NothingLost'
      BY <2>1, PushQueue, PopQueue, ApplyQueue, LoopQueue DEF Run
    <3> QED BY <2>1, <3>1, EngineStop DEF EngineInductive
  <2>2. CASE Main
    BY <2>2, MainTypes, MainStop, MainBuffer, MainCopy DEF EngineInductive
  <2>3. CASE Viewer \/ UNCHANGED vars
    BY <2>3, ViewerEngine
  <2> QED BY <2>1, <2>2, <2>3 DEF Next, Ended
<1> QED BY <1>1, <1>2, PTL DEF Spec

\* Every variable of the engine holds a value of its kind; a command in the
\* engine's hand is a real one (Run applies what try_pop filled in).
THEOREM EngineTyped == Spec => []TypeOK
<1>1. EngineInductive => TypeOK
  BY DEF EngineInductive
<1> QED BY <1>1, EngineInvariant, PTL

\* No command that push accepted is lost, duplicated or overtaken.
THEOREM CommandsInOrder == Spec => []NothingLost
<1>1. EngineInductive => NothingLost
  BY DEF EngineInductive
<1> QED BY <1>1, EngineInvariant, PTL

\* Run returns only after it has applied all that was accepted before the stop.
THEOREM StopDrainsTheQueue == Spec => []StopDrains
<1>1. EngineInductive => StopDrains
  BY DEF EngineInductive, StopInv
<1> QED BY <1>1, EngineInvariant, PTL

\* The copy that UpdateSnapshot made is the active one when it has returned.
THEOREM UpdateIsPublished == Spec => []UpdatePublished
<1>1. EngineInductive => UpdatePublished
  BY DEF EngineInductive, BufferInv, UpdatePublished, Updating
<1> QED BY <1>1, EngineInvariant, PTL

\* Only a copy of a snapshot that is the newest no more is overlapped by a write.
THEOREM WriterAvoidsActive == Spec => OnlyStaleCopiesTorn
<1> DEFINE Step == viewer' = "torn" /\ viewer # "torn" => behind' > 0
<1>1. ASSUME EngineInductive, [Next]_vars PROVE [Step]_vars
  <2>1. SUFFICES ASSUME Next, viewer' = "torn", viewer # "torn"
                 PROVE  behind' > 0
    BY <1>1
  <2>2. /\ inactive_idx \in {0, 1} /\ m_ActiveSnapshot \in {0, 1} /\ CopyInv
        /\ Updating => inactive_idx = 1 - m_ActiveSnapshot
        /\ behind \in 0 .. MostBehind
    BY <1>1 DEF EngineInductive, TypeOK, BufferInv
  <2>3. CASE AsksCopied
    <3>1. viewer = "copy" /\ active = inactive_idx /\ behind' = behind /\ Updating
      BY <2>1, <2>3 DEF AsksCopied, Overwrites, Updating
    <3> QED BY <2>2, <3>1 DEF CopyInv
  <2>4. CASE LoadActive
    <3>1. PICK b \in 0 .. behind : StartCopy(b)
      BY <2>4 DEF LoadActive
    <3>2. b \in Nat /\ behind' = b /\ Overwritten(active', b)
      BY <2>1, <2>2, <3>1 DEF StartCopy, MostBehind
    <3>3. b # 0
      BY <2>2, <3>1, <3>2 DEF StartCopy, Overwritten, Updating
    <3> QED BY <3>2, <3>3
  <2>5. AsksCopied \/ LoadActive
    BY <2>1 DEF Next, Push, Run, CheckStop, Pop, TryPop, ApplyReturns, Wake, DrainPop,
         DrainApplyReturns, Main, Start, UpdateSnapshot, BidsCopied, Written, Publish, Stop,
         Joined, Viewer, ActiveCopied, Ended, vars, viewVars
  <2> QED BY <2>3, <2>4, <2>5
<1> QED BY <1>1, EngineInvariant, PTL DEF Spec, OnlyStaleCopiesTorn

-----------------------------------------------------------------------------
(* The command queue as a first-in, first-out queue.                       *)

\* What try_pop has delivered: the commands applied and the one in the hand.
Popped == IF Applying THEN Append(applied, cmd) ELSE applied

\* m_CommandQueue as the abstract queue; no code closes it.
CommandQueue ==
  INSTANCE FifoQueue WITH Capacity <- MaxCommands, delivered <- Popped, closed <- FALSE

\* Only the two pops change what was popped: Apply moves a command from the hand
\* to the book, and nobody but the engine thread touches either.
LEMMA PoppedByPopsOnly ==
  ASSUME EngineInductive, [Next]_vars, ~Push, ~Pop, ~DrainPop
  PROVE  UNCHANGED <<accepted, Popped>>
<1>1. CASE ApplyReturns \/ DrainApplyReturns
  BY <1>1 DEF ApplyReturns, DrainApplyReturns, Popped, Applying, queueVars
<1>2. CASE CheckStop \/ Wake
  BY <1>2 DEF CheckStop, Wake, Popped, Applying, queueVars
<1>3. CASE Start
  <2>1. /\ UNCHANGED <<accepted, applied, cmd>> /\ engine' = "loop"
        /\ engine = "none"
    BY <1>3 DEF Start, EngineInductive, StopInv, queueVars
  <2> QED BY <1>3, <2>1 DEF Popped, Applying
<1>4. CASE UpdateSnapshot \/ BidsCopied \/ AsksCopied \/ Written \/ Publish \/ Stop \/ Joined
           \/ Viewer \/ UNCHANGED vars
  <2>1. UNCHANGED <<queueVars, engineVars>>
    BY <1>4 DEF UpdateSnapshot, BidsCopied, AsksCopied, Written, Publish, Stop, Joined, Viewer,
           LoadActive, StartCopy, ActiveCopied, vars
  <2> QED BY <2>1 DEF Popped, Applying, queueVars, engineVars
<1> QED BY <1>1, <1>2, <1>3, <1>4 DEF Next, Run, Main, Ended

\* The clients and the engine, whichever of its two loops pops, use the command
\* queue as one first-in, first-out queue (AddOrder, ModifyOrder, CancelOrder
\* push; Run try_pops): popped is what was pushed, in that order, each once.
THEOREM CommandQueueIsFifo == Spec => CommandQueue!Spec
<1>1. Init => CommandQueue!Init
  BY DEF Init, CommandQueue!Init, Popped, Applying
<1>2. EngineInductive /\ [Next]_vars => [CommandQueue!Next]_(CommandQueue!vars)
  <2> SUFFICES ASSUME EngineInductive, [Next]_vars
               PROVE  [CommandQueue!Next]_(CommandQueue!vars)
    OBVIOUS
  <2>1. /\ TypeOK /\ NothingLost
        /\ Len(Popped) = Len(applied) + InHand /\ Len(Popped) \in Nat
        /\ accepted = Len(Popped) + Len(m_CommandQueue)
    BY DEF EngineInductive, TypeOK, NothingLost, Popped, InHand
  <2>2. CASE Push
    <3>1. /\ accepted' = accepted + 1 /\ UNCHANGED Popped
          /\ accepted < MaxCommands
      BY <2>2 DEF Push, Popped, Applying, engineVars
    <3>2. accepted - Len(Popped) < MaxCommands
      BY <2>1, <3>1, EngineAssumption DEF TypeOK
    <3> QED BY <3>1, <3>2 DEF CommandQueue!Next, CommandQueue!Push
  <2>3. CASE Pop \/ DrainPop
    <3>1. ~Applying /\ UNCHANGED <<accepted, applied>>
      BY <2>3 DEF Pop, DrainPop, TryPop, Applying
    <3>2. CASE m_CommandQueue = <<>>
      <4>1. ~Applying'
        BY <2>3, <3>2 DEF Pop, DrainPop, TryPop, Applying
      <4> QED BY <3>1, <4>1 DEF Popped, CommandQueue!vars
    <3>3. CASE m_CommandQueue # <<>>
      <4>1. Applying' /\ cmd' = Head(m_CommandQueue)
        BY <2>3, <3>3 DEF Pop, DrainPop, TryPop, Applying
      <4>2. /\ Head(m_CommandQueue) = m_CommandQueue[1] /\ 1 \in DOMAIN m_CommandQueue
            /\ Len(m_CommandQueue) \in Nat \ {0}
        BY <2>1, <3>3 DEF TypeOK
      <4>3. cmd' = Len(Popped) + 1 /\ Len(Popped) < accepted
        BY <2>1, <4>1, <4>2 DEF NothingLost
      <4>4. Popped = applied /\ Popped' = Append(applied, cmd')
        BY <3>1, <4>1 DEF Popped
      <4> QED BY <3>1, <4>3, <4>4 DEF CommandQueue!Next, CommandQueue!Pop
    <3> QED BY <3>2, <3>3
  <2>4. CASE ~Push /\ ~Pop /\ ~DrainPop
    BY <2>1, <2>4, PoppedByPopsOnly DEF CommandQueue!vars
  <2> QED BY <2>2, <2>3, <2>4
<1> QED BY <1>1, <1>2, EngineInvariant, PTL DEF Spec, CommandQueue!Spec

-----------------------------------------------------------------------------
(* The order of the versions.                                              *)

\* A side that holds v may be replaced by one that holds w.
Newer(v, w) == v # Torn /\ w # Torn => w >= v
NewerView(s, t) == Newer(s.bids, t.bids) /\ Newer(s.asks, t.asks)
NotAhead(s) == s.bids <= Len(applied) /\ s.asks <= Len(applied)

\* Newer is no order, for Torn is related to everything both ways: all pairs
\* that a later step puts side by side are listed.
ViewInv ==
  /\ NotAhead(shown) /\ NotAhead(snapshot) /\ \A i \in {0, 1} : NotAhead(m_Snapshots[i])
  /\ NewerView(shown, m_Snapshots[m_ActiveSnapshot])
  /\ behind > 0 => NewerView(shown, m_Snapshots[1 - m_ActiveSnapshot])
  /\ main # "publish" => NewerView(m_Snapshots[1 - m_ActiveSnapshot], m_Snapshots[m_ActiveSnapshot])
  /\ Updating =>
       \A s \in {shown, m_Snapshots[0], m_Snapshots[1]} :
         Newer(s.bids, snapshot.bids) /\ (main # "bids" => Newer(s.asks, snapshot.asks))

LEMMA SidesAreIntegers ==
  ASSUME TypeOK
  PROVE  /\ Len(applied) \in Nat
         /\ shown \in Snapshots /\ snapshot \in Snapshots
         /\ shown.bids \in Nat /\ shown.asks \in Nat /\ behind \in Nat
         /\ DOMAIN m_Snapshots = {0, 1}
         /\ m_Snapshots[0] \in Snapshots /\ m_Snapshots[1] \in Snapshots
         /\ m_ActiveSnapshot \in {0, 1} /\ inactive_idx \in {0, 1} /\ active \in {0, 1}
         /\ \A s \in Snapshots : s.bids \in Int /\ s.asks \in Int
  BY DEF TypeOK, Snapshots, Version, Torn, MostBehind

\* The book never gets older.
LEMMA EngineView ==
  ASSUME EngineInductive, ViewInv, Push \/ Run
  PROVE  ViewInv'
<1>1. /\ TypeOK /\ UNCHANGED <<mainVars, viewVars>>
      /\ UNCHANGED applied \/ applied' = Append(applied, cmd)
  BY DEF EngineInductive, Push, Run, CheckStop, Pop, TryPop, ApplyReturns, Wake, DrainPop,
         DrainApplyReturns, engineVars
<1>2. Len(applied) \in Nat /\ Len(applied') \in Nat /\ Len(applied) <= Len(applied')
  BY <1>1 DEF TypeOK
<1>3. /\ UNCHANGED <<shown, snapshot, m_Snapshots>>
      /\ NotAhead(shown) /\ NotAhead(snapshot) /\ \A i \in {0, 1} : NotAhead(m_Snapshots[i])
  BY <1>1 DEF ViewInv, mainVars, viewVars
<1>4. NotAhead(shown)' /\ NotAhead(snapshot)' /\ \A i \in {0, 1} : NotAhead(m_Snapshots[i])'
  <2>1. \A s \in Snapshots : NotAhead(s) => s.bids <= Len(applied') /\ s.asks <= Len(applied')
    BY <1>1, <1>2, SidesAreIntegers DEF NotAhead
  <2> QED BY <1>1, <1>3, <2>1, SidesAreIntegers DEF NotAhead
<1> QED BY <1>1, <1>4 DEF ViewInv, NewerView, Updating, mainVars, viewVars

\* A copy starts from the book as it is now, which nothing is ahead of.
LEMMA CopyView ==
  ASSUME EngineInductive, ViewInv, UpdateSnapshot \/ BidsCopied \/ AsksCopied
  PROVE  ViewInv'
<1>1. /\ TypeOK /\ applied' = applied
      /\ UNCHANGED <<m_Snapshots, m_ActiveSnapshot, shown, behind>>
  BY DEF EngineInductive, UpdateSnapshot, BidsCopied, AsksCopied, engineVars, viewVars
<1>2. \/ VersionNow = Torn
      \/ VersionNow = Len(applied)
  BY DEF VersionNow
<1>3. /\ Torn <= Len(applied)
      /\ \A v \in Int : v <= Len(applied) => Newer(v, VersionNow)
      /\ \A v \in Int : v <= Len(applied) => Copied(v) <= Len(applied)
      /\ \A v, w \in Int : Newer(v, w) => Newer(v, Copied(w))
  BY <1>1, <1>2, SidesAreIntegers DEF Newer, Copied, Torn
<1>4. /\ NotAhead(shown) /\ NotAhead(snapshot)
      /\ NotAhead(m_Snapshots[0]) /\ NotAhead(m_Snapshots[1])
  BY DEF ViewInv
<1>5. VersionNow <= Len(applied)
  BY <1>1, <1>2, SidesAreIntegers DEF Torn
<1> DEFINE Others == {shown, m_Snapshots[0], m_Snapshots[1]}
<1>6. CASE UpdateSnapshot
  <2>1. /\ main = "idle" /\ main' = "bids"
        /\ snapshot'.bids = VersionNow /\ snapshot'.asks = snapshot.asks
    BY <1>1, <1>6, SidesAreIntegers DEF UpdateSnapshot, Snapshots
  <2>2. NotAhead(snapshot)'
    BY <1>1, <1>4, <1>5, <2>1 DEF NotAhead
  <2>3. \A s \in Others : Newer(s.bids, VersionNow)
    BY <1>1, <1>3, <1>4, SidesAreIntegers DEF NotAhead
  <2> QED BY <1>1, <1>4, <2>1, <2>2, <2>3 DEF ViewInv, NotAhead, NewerView, Updating
<1>7. CASE BidsCopied
  <2>1. /\ main = "bids" /\ main' = "asks"
        /\ snapshot'.bids = Copied(snapshot.bids) /\ snapshot'.asks = VersionNow
    BY <1>7 DEF BidsCopied
  <2>2. NotAhead(snapshot)'
    BY <1>1, <1>3, <1>4, <1>5, <2>1, SidesAreIntegers DEF NotAhead
  <2>3. \A s \in Others : Newer(s.bids, Copied(snapshot.bids)) /\ Newer(s.asks, VersionNow)
    BY <1>1, <1>3, <1>4, <2>1, SidesAreIntegers DEF NotAhead, ViewInv, Updating
  <2> QED BY <1>1, <1>4, <2>1, <2>2, <2>3 DEF ViewInv, NotAhead, NewerView, Updating
<1>8. CASE AsksCopied
  <2>1. /\ main = "asks" /\ main' = "write"
        /\ snapshot'.bids = snapshot.bids /\ snapshot'.asks = Copied(snapshot.asks)
    BY <1>1, <1>8, SidesAreIntegers DEF AsksCopied, Snapshots
  <2>2. NotAhead(snapshot)'
    BY <1>1, <1>3, <1>4, <2>1, SidesAreIntegers DEF NotAhead
  <2>3. \A s \in Others : Newer(s.bids, snapshot.bids) /\ Newer(s.asks, Copied(snapshot.asks))
    BY <1>1, <1>3, <2>1, SidesAreIntegers DEF ViewInv, Updating
  <2> QED BY <1>1, <1>4, <2>1, <2>2, <2>3 DEF ViewInv, NotAhead, NewerView, Updating
<1> QED BY <1>6, <1>7, <1>8

\* The copy takes the place of the older of the two, and then becomes active.
LEMMA PublishView ==
  ASSUME EngineInductive, ViewInv, Written \/ Publish
  PROVE  ViewInv'
<1>1. /\ TypeOK /\ UNCHANGED <<applied, shown, snapshot, inactive_idx>>
      /\ inactive_idx = 1 - m_ActiveSnapshot /\ Updating /\ main \in {"write", "publish"}
  BY DEF EngineInductive, BufferInv, Written, Publish, engineVars, viewVars, Updating
<1>2. \A s \in {shown, m_Snapshots[0], m_Snapshots[1]} : NewerView(s, snapshot)
  BY <1>1 DEF ViewInv, NewerView
<1>3. CASE Written
  <2>1. /\ main' = "publish" /\ m_ActiveSnapshot' = m_ActiveSnapshot /\ behind' = behind
        /\ m_Snapshots'[inactive_idx] = snapshot
        /\ m_Snapshots'[m_ActiveSnapshot] = m_Snapshots[m_ActiveSnapshot]
    BY <1>1, <1>3, SidesAreIntegers DEF Written, viewVars
  <2>2. NewerView(snapshot, snapshot)
    BY <1>1, SidesAreIntegers DEF NewerView, Newer
  <2>3. \A i \in {0, 1} : m_Snapshots'[i] \in {snapshot, m_Snapshots[m_ActiveSnapshot]}
    BY <1>1, <2>1, SidesAreIntegers
  <2>4. \A s \in {shown, m_Snapshots[0], m_Snapshots[1]}' : NewerView(s, snapshot)
    BY <1>1, <1>2, <2>2, <2>3, SidesAreIntegers
  <2> QED BY <1>1, <2>1, <2>3, <2>4, SidesAreIntegers DEF ViewInv, NotAhead, NewerView, Updating
<1>4. CASE Publish
  <2>1. /\ main' = "idle" /\ m_ActiveSnapshot' = inactive_idx /\ m_Snapshots' = m_Snapshots
        /\ m_Snapshots[inactive_idx] = snapshot
    BY <1>4 DEF Publish, EngineInductive, BufferInv
  <2>2. 1 - m_ActiveSnapshot' = m_ActiveSnapshot
    BY <1>1, <2>1, SidesAreIntegers
  <2> QED BY <1>1, <1>2, <2>1, <2>2, SidesAreIntegers
        DEF ViewInv, NotAhead, NewerView, Updating
<1> QED BY <1>3, <1>4

LEMMA OtherMainView ==
  ASSUME EngineInductive, ViewInv, Start \/ Stop \/ Joined
  PROVE  ViewInv'
<1>1. /\ UNCHANGED <<applied, snapshot, m_Snapshots, m_ActiveSnapshot, viewVars>>
      /\ main \in {"new", "idle", "joining"} /\ main' \in {"idle", "joining", "ended"}
  BY DEF Start, Stop, Joined, engineVars
<1> QED BY <1>1 DEF ViewInv, NotAhead, NewerView, Updating, viewVars

\* The viewer shows what it copied, which is no older than what it showed.
LEMMA ViewerView ==
  ASSUME EngineInductive, ViewInv, Viewer \/ UNCHANGED vars
  PROVE  ViewInv'
<1>1. TypeOK /\ CopyInv /\ UNCHANGED <<applied, mainVars>>
  BY DEF EngineInductive, Viewer, LoadActive, StartCopy, ActiveCopied, vars, engineVars
<1>2. CASE LoadActive
  <2>1. shown' = shown /\ (behind' > 0 => behind > 0)
    <3>1. PICK b \in 0 .. behind : StartCopy(b)
      BY <1>2 DEF LoadActive
    <3> QED BY <1>1, <3>1, SidesAreIntegers DEF StartCopy
  <2> QED BY <1>1, <2>1 DEF ViewInv, NotAhead, NewerView, Updating, mainVars
<1>3. CASE ActiveCopied /\ viewer = "copy"
  <2> DEFINE s == m_Snapshots[active]
  <2>1. /\ behind' = behind
        /\ shown'.bids = Fresh(s.bids, shown.bids) /\ shown'.asks = Fresh(s.asks, shown.asks)
    BY <1>3 DEF ActiveCopied
  <2>2. \A v, w, x : Newer(v, x) /\ Newer(w, x) => Newer(Fresh(v, w), x)
    BY DEF Fresh
  <2>3. \A t : NewerView(shown, t) /\ NewerView(s, t) => NewerView(shown', t)
    BY <2>1, <2>2 DEF NewerView
  <2>4. /\ s \in {m_Snapshots[0], m_Snapshots[1]} /\ NotAhead(s)
        /\ NotAhead(shown) /\ s.bids \in Int /\ s.asks \in Int
    BY <1>1, SidesAreIntegers DEF ViewInv
  <2>5. NotAhead(shown)'
    BY <1>1, <2>1, <2>4 DEF NotAhead, Fresh
  <2>6. NewerView(s, m_Snapshots[m_ActiveSnapshot])
    <3>1. CASE active = m_ActiveSnapshot
      BY <2>4, <3>1 DEF NewerView, Newer
    <3>2. CASE active # m_ActiveSnapshot
      BY <1>1, <1>3, <3>2 DEF ViewInv, CopyInv
    <3> QED BY <3>1, <3>2
  <2>7. behind > 0 => NewerView(s, m_Snapshots[1 - m_ActiveSnapshot])
    <3> SUFFICES ASSUME behind > 0 PROVE NewerView(s, m_Snapshots[1 - m_ActiveSnapshot])
      OBVIOUS
    <3>1. active = 1 - m_ActiveSnapshot
      BY <1>1, <1>3 DEF CopyInv
    <3> QED BY <2>4, <3>1 DEF NewerView, Newer
  <2>8. /\ NewerView(shown', m_Snapshots[m_ActiveSnapshot])
        /\ behind > 0 => NewerView(shown', m_Snapshots[1 - m_ActiveSnapshot])
    BY <2>3, <2>6, <2>7 DEF ViewInv
  <2>9. Updating => /\ Newer(shown'.bids, snapshot.bids)
                    /\ main # "bids" => Newer(shown'.asks, snapshot.asks)
    BY <2>1, <2>2, <2>4 DEF ViewInv
  <2> HIDE DEF s
  <2> QED BY <1>1, <2>1, <2>5, <2>8, <2>9 DEF ViewInv, NotAhead, Updating, mainVars, NewerView
<1>4. CASE ActiveCopied /\ viewer # "copy"
  BY <1>1, <1>4 DEF ActiveCopied, ViewInv, NotAhead, NewerView, Updating, mainVars
<1>5. CASE UNCHANGED vars
  BY <1>1, <1>5 DEF ViewInv, NotAhead, NewerView, Updating, mainVars, viewVars, vars
<1> QED BY <1>2, <1>3, <1>4, <1>5 DEF Viewer

\* No side of a copy that is not torn is of an earlier state of the book than
\* what the viewer was shown before, whatever torn copies came between, for any
\* number of commands, and although main and the viewer share no lock.
THEOREM ViewIsMonotone == Spec => ViewNeverGoesBack
<1>1. Init => ViewInv
  <2> SUFFICES ASSUME Init PROVE ViewInv
    OBVIOUS
  <2>1. /\ shown = Empty /\ snapshot = Empty /\ m_ActiveSnapshot = 0
        /\ \A i \in {0, 1} : m_Snapshots[i] = Empty
        /\ main = "new" /\ behind = 0 /\ Len(applied) = 0
    BY DEF Init
  <2> QED BY <2>1 DEF Empty, ViewInv, NotAhead, NewerView, Newer, Updating
<1>2. EngineInductive /\ ViewInv /\ [Next]_vars => ViewInv'
  BY EngineView, CopyView, PublishView, OtherMainView, ViewerView DEF Next, Main, Ended
<1>3. EngineInductive /\ ViewInv /\ [Next]_vars
        => [shown'.bids >= shown.bids /\ shown'.asks >= shown.asks]_vars
  <2> SUFFICES ASSUME EngineInductive, ViewInv, Next
               PROVE  shown'.bids >= shown.bids /\ shown'.asks >= shown.asks
    OBVIOUS
  <2>1. /\ TypeOK /\ CopyInv /\ shown.bids \in Nat /\ shown.asks \in Nat
        /\ \A s \in Snapshots : s.bids \in Int /\ s.asks \in Int
        /\ m_Snapshots[active] \in Snapshots
    BY SidesAreIntegers DEF EngineInductive
  <2>2. CASE ActiveCopied /\ viewer = "copy"
    <3>1. NewerView(shown, m_Snapshots[active])
      BY <2>1, <2>2 DEF ViewInv, CopyInv
    <3>2. /\ shown'.bids = Fresh(m_Snapshots[active].bids, shown.bids)
          /\ shown'.asks = Fresh(m_Snapshots[active].asks, shown.asks)
      BY <2>2 DEF ActiveCopied
    <3>3. shown.bids # Torn /\ shown.asks # Torn
      BY <2>1 DEF Torn
    <3> QED BY <2>1, <3>1, <3>2, <3>3 DEF NewerView, Newer, Fresh
  <2>3. CASE shown' = shown
    BY <2>1, <2>3
  <2>4. (ActiveCopied /\ viewer = "copy") \/ shown' = shown
    BY DEF Next, Push, Run, CheckStop, Pop, TryPop, ApplyReturns, Wake, DrainPop,
         DrainApplyReturns, Main, Start, UpdateSnapshot, BidsCopied, AsksCopied, Written,
         Publish, Stop, Joined, Viewer, LoadActive, StartCopy, ActiveCopied, Ended, vars, viewVars
  <2> QED BY <2>2, <2>3, <2>4
<1> QED BY <1>1, <1>2, <1>3, EngineInvariant, PTL DEF Spec, ViewNeverGoesBack
=============================================================================
