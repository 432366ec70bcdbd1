----------------------- MODULE MatrixVerificationProofs -----------------------
(***************************************************************************)
(* What holds of MatrixVerification for every number of decisions and      *)
(* every size of the stderr pipe: its types, that a refusal taken in time  *)
(* holds, that the bridge reports what became of the verification and      *)
(* keeps the promise of VerificationVerdict, and that no wake-up is lost.  *)
(***************************************************************************)
EXTENDS MatrixVerification, SequenceTheorems, TLAPS

LEMMA LinesAre == Lines = {"preparing", "pending", "started", "emoji_ready", "confirmed",
                           "rejected", "complete", "cancelled"}
BY DEF Lines, StatusOf

(* The process, the SDK's flow, the pipes and the attempt keep to their    *)
(* types, whatever arrives and whatever the user decides.                  *)
THEOREM TypeCorrect == Spec => []TypeOK
<1> USE VerificationAssumption DEF TypeOK
<1>1. Init => TypeOK
  <2> SUFFICES ASSUME Init PROVE TypeOK
    OBVIOUS
  <2>1. commands \in Seq([what : Decisions, shown : BOOLEAN]) /\ out \in Seq(Lines)
    BY DEF Init
  <2>2. errors \in 0..StderrSize /\ decided \in 0..MaxDecisions
    BY DEF Init
  <2>3. QED BY <2>1, <2>2 DEF Init
<1>2. TypeOK /\ [Next]_vars => TypeOK'
  <2> SUFFICES ASSUME TypeOK, [Next]_vars PROVE TypeOK'
    OBVIOUS
  <2> USE LinesAre DEF process, sdk, attempt, aux
  <2>1. ASSUME NEW l \in Lines, Emit(l) PROVE out' \in Seq(Lines)
    BY <2>1 DEF Emit
  <2>2. ASSUME Take
        PROVE  /\ commands' \in Seq([what : Decisions, shown : BOOLEAN])
               /\ Head(commands).what \in Decisions /\ Head(commands).shown \in BOOLEAN
    <3>1. Head(commands) \in [what : Decisions, shown : BOOLEAN]
      BY <2>2, HeadTailProperties DEF Take
    <3>2. commands' \in Seq([what : Decisions, shown : BOOLEAN])
      BY <2>2, HeadTailProperties DEF Take
    <3>3. QED BY <3>1, <3>2
  <2>3. ASSUME EndFlow
        PROVE  /\ request' \in {"none", "created", "ready", "transitioned", "done", "cancelled"}
               /\ sas' \in {"none", "created", "started", "accepted", "keys", "confirmed",
                            "done", "cancelled"}
               /\ fresh' \in BOOLEAN /\ refused' \in BOOLEAN
    BY <2>3 DEF EndFlow, Live, Cancelled
  <2>4. ASSUME NEW what \in Decisions, Decide(what) PROVE TypeOK'
    BY <2>4 DEF Decide
  <2>5. CASE ReadLine
    <3>1. Head(out) \in Lines /\ out' \in Seq(Lines)
      BY <2>5 DEF ReadLine
    <3>2. status' \in {StatusOf[line] : line \in Lines}
      BY <2>5, <3>1 DEF ReadLine
    <3>3. QED BY <2>5, <3>1, <3>2 DEF ReadLine
  <2>6. CASE Reap
    <3>1. StatusOf["complete"] = "done"
      BY DEF StatusOf
    <3>2. status' \in {"starting", "failed"} \cup {StatusOf[line] : line \in Lines}
      BY <2>6, <3>1 DEF Reap
    <3>3. QED BY <2>6, <3>2 DEF Reap
  <2>7. CASE Other \/ FlowEnds
    <3>1. ASSUME NEW r \in {"ready", "transitioned", "done", "cancelled"} \cup {request},
                 NEW s \in {"none", "started", "accepted", "keys", "done", "cancelled"},
                 Change(r, s)
          PROVE  TypeOK'
      BY <3>1 DEF Change
    <3>2. CASE Other
      BY <2>7, <3>1, <3>2 DEF Other, OtherAccepts, OtherStarts, OtherContinues
    <3>3. CASE FlowEnds
      BY <2>7, <3>1, <3>3 DEF FlowEnds, Cancelled
    <3>4. QED BY <2>7, <3>2, <3>3
  <2>8. CASE SyncFails BY <2>8 DEF SyncFails, Blocked
  <2>9. CASE Prepare BY <2>9, <2>1 DEF Prepare
  <2>10. CASE AlreadyVerified BY <2>10, <2>1 DEF AlreadyVerified
  <2>11. CASE RequestVerification BY <2>11, <2>1 DEF RequestVerification
  <2>12. CASE SeeRequest
    <3>1. out' \in Seq(Lines) BY <2>12, <2>1 DEF SeeRequest
    <3>2. fresh' \in BOOLEAN BY <2>12 DEF SeeRequest, Sees
    <3>3. pc' \in {"request", "start_sas", "sas_entered", "end_error"} BY <2>12 DEF SeeRequest
    <3>4. QED BY <2>12, <3>1, <3>2, <3>3 DEF SeeRequest
  <2>13. CASE StartSas
    <3>1. CASE request = "ready" BY <2>13, <3>1 DEF StartSas
    <3>2. CASE request # "ready" BY <2>13, <3>2 DEF StartSas
    <3>3. QED BY <3>1, <3>2
  <2>14. CASE RequestCommand
    <3>1. out' \in Seq(Lines) BY <2>14, <2>1 DEF RequestCommand
    <3>2. QED BY <2>14, <2>2, <2>3, <3>1 DEF RequestCommand
  <2>15. CASE SeeSas
    <3>1. out' \in Seq(Lines) BY <2>15, <2>1 DEF SeeSas
    <3>2. fresh' \in BOOLEAN BY <2>15 DEF SeeSas, Sees
    <3>3. pc' \in {"sas", "end_ok", "end_error"} /\ awaiting' \in BOOLEAN
      BY <2>15 DEF SeeSas
    <3>4. QED BY <2>15, <3>1, <3>2, <3>3 DEF SeeSas
  <2>16. CASE SasCommand
    <3> DEFINE command == Head(commands)
    <3>1. command.what \in Decisions /\ command.shown \in BOOLEAN
          /\ commands' \in Seq([what : Decisions, shown : BOOLEAN])
      BY <2>16, <2>2 DEF SasCommand
    <3>2. CASE command.what # "confirm"
      <4>1. RefuseSas(command.what) BY <2>16, <3>2 DEF SasCommand
      <4>2. out' \in Seq(Lines) BY <4>1, <2>1 DEF RefuseSas
      <4>3. QED BY <2>16, <3>1, <2>3, <4>1, <4>2 DEF SasCommand, RefuseSas
    <3>3. CASE command.what = "confirm" /\ awaiting
      <4>1. ConfirmSas(command.shown) BY <2>16, <3>3 DEF SasCommand
      <4>2. out' \in Seq(Lines) BY <4>1, <2>1 DEF ConfirmSas
      <4>3. sas' \in {sas, "confirmed"} /\ fresh' \in BOOLEAN /\ blind' \in BOOLEAN
        BY <3>1, <4>1 DEF ConfirmSas
      <4>4. QED BY <2>16, <3>1, <4>1, <4>2, <4>3 DEF SasCommand, ConfirmSas
    <3>4. CASE command.what = "confirm" /\ ~awaiting
      BY <2>16, <3>1, <3>4 DEF SasCommand
    <3>5. QED BY <3>2, <3>3, <3>4
  <2>17. CASE Exit BY <2>17 DEF Exit
  <2>18. CASE ProcessFails BY <2>18 DEF ProcessFails
  <2>19. CASE UNCHANGED vars BY <2>19 DEF vars
  <2>20. QED
    BY <2>4, <2>5, <2>6, <2>7, <2>8, <2>9, <2>10, <2>11, <2>12, <2>13, <2>14, <2>15,
       <2>16, <2>17, <2>18, <2>19
    DEF Next, Process, Finished
<1>3. QED
  BY <1>1, <1>2, PTL DEF Spec

-----------------------------------------------------------------------------
(* A refusal is taken while the process waits, and it ends a flow that is  *)
(* not yet over: nothing leads out of a cancelled request.                 *)
StaysRefused ==
    refused => request = "cancelled" /\ sas \in {"none", "cancelled"} /\ pc \notin {"starting", "prepared"}

(* No confirmation, before or after it, and no message of the other device *)
(* verifies the device once the user's refusal was taken in time.          *)
THEOREM RefusalIsKept == Spec => []RefusalHolds
<1>1. Init => StaysRefused
  BY DEF Init, StaysRefused
<1>2. TypeOK /\ StaysRefused /\ [Next]_vars => StaysRefused'
  <2> SUFFICES ASSUME TypeOK, StaysRefused, [Next]_vars PROVE StaysRefused'
    OBVIOUS
  <2> USE DEF TypeOK, StaysRefused, process, sdk, attempt, aux
  <2>1. ASSUME EndFlow, pc \notin {"starting", "prepared"}, pc' = pc PROVE StaysRefused'
    BY <2>1 DEF EndFlow, Live, Cancelled
  <2>2. ASSUME NEW what \in Decisions, Decide(what) PROVE StaysRefused'
    BY <2>2 DEF Decide
  <2>3. CASE ReadLine \/ Reap
    BY <2>3 DEF ReadLine, Reap
  <2>4. CASE Other \/ FlowEnds
    BY <2>4 DEF Other, OtherAccepts, OtherStarts, OtherContinues, FlowEnds, Live, Change, Cancelled
  <2>5. CASE SyncFails BY <2>5 DEF SyncFails
  <2>6. CASE Prepare \/ AlreadyVerified \/ RequestVerification
    BY <2>6 DEF Prepare, AlreadyVerified, RequestVerification
  <2>7. CASE SeeRequest BY <2>7 DEF SeeRequest
  <2>8. CASE StartSas BY <2>8 DEF StartSas
  <2>9. CASE RequestCommand BY <2>1, <2>9 DEF RequestCommand
  <2>10. CASE SeeSas BY <2>10 DEF SeeSas
  <2>11. CASE SasCommand
    <3>1. CASE Head(commands).what # "confirm"
      BY <2>1, <2>11, <3>1 DEF SasCommand, RefuseSas
    <3>2. CASE Head(commands).what = "confirm"
      BY <2>11, <3>2 DEF SasCommand, ConfirmSas
    <3>3. QED BY <3>1, <3>2
  <2>12. CASE Exit BY <2>12 DEF Exit
  <2>13. CASE ProcessFails BY <2>13 DEF ProcessFails, Running
  <2>14. CASE UNCHANGED vars BY <2>14 DEF vars
  <2>15. QED
    BY <2>2, <2>3, <2>4, <2>5, <2>6, <2>7, <2>8, <2>9, <2>10, <2>11, <2>12, <2>13, <2>14
    DEF Next, Process, Finished
<1>3. StaysRefused => RefusalHolds
  BY DEF StaysRefused, RefusalHolds, Verified
<1>4. QED
  BY <1>1, <1>2, <1>3, TypeCorrect, PTL DEF Spec

-----------------------------------------------------------------------------
(* How the request, the emoji comparison and the process belong together.  *)
FlowShape ==
    /\ pc \in {"starting", "prepared"} => request = "none" /\ sas = "none"
    /\ Syncing => request # "none"
    /\ sas \in {"created", "started", "accepted", "keys", "confirmed"} => request = "transitioned"
    /\ sas \in {"done", "cancelled"} => request = sas
    /\ awaiting => sas \in {"keys", "cancelled"} /\ pc \in {"sas", "end_ok", "end_error", "exit_ok", "exit_error"}

LEMMA ShapeKept == Spec => []FlowShape
<1>1. Init => FlowShape
  BY DEF Init, FlowShape, Syncing
<1>2. TypeOK /\ FlowShape /\ [Next]_vars => FlowShape'
  <2> SUFFICES ASSUME TypeOK, FlowShape, [Next]_vars PROVE FlowShape'
    OBVIOUS
  <2> USE DEF TypeOK, FlowShape, Syncing, process, sdk, attempt, aux
  <2>1. ASSUME NEW what \in Decisions, Decide(what) PROVE FlowShape'
    BY <2>1 DEF Decide
  <2>2. CASE ReadLine \/ Reap BY <2>2 DEF ReadLine, Reap
  <2>3. CASE Other \/ FlowEnds
    <3> USE DEF Change, Syncing
    <3>1. CASE OtherAccepts BY <3>1 DEF OtherAccepts
    <3>2. CASE OtherStarts BY <3>2 DEF OtherStarts
    <3>3. CASE OtherContinues BY <3>3 DEF OtherContinues
    <3>4. CASE FlowEnds BY <3>4 DEF FlowEnds, Live, Cancelled
    <3>5. QED BY <2>3, <3>1, <3>2, <3>3, <3>4 DEF Other
  <2>4. CASE SyncFails BY <2>4 DEF SyncFails
  <2>5. CASE Prepare \/ AlreadyVerified \/ RequestVerification
    BY <2>5 DEF Prepare, AlreadyVerified, RequestVerification
  <2>6. CASE SeeRequest BY <2>6 DEF SeeRequest, Sees, RequestLoop
  <2>7. CASE StartSas
    <3>1. CASE request = "ready" BY <2>7, <3>1 DEF StartSas
    <3>2. CASE request # "ready" BY <2>7, <3>2 DEF StartSas
    <3>3. QED BY <3>1, <3>2
  <2>8. CASE RequestCommand
    BY <2>8 DEF RequestCommand, EndFlow, Live, Cancelled
  <2>9. CASE SeeSas BY <2>9 DEF SeeSas, Sees, SasLoop
  <2>10. CASE SasCommand
    <3>1. CASE Head(commands).what # "confirm"
      BY <2>10, <3>1 DEF SasCommand, RefuseSas, EndFlow, Live, Cancelled
    <3>2. CASE Head(commands).what = "confirm"
      BY <2>10, <3>2 DEF SasCommand, ConfirmSas
    <3>3. QED BY <3>1, <3>2
  <2>11. CASE Exit BY <2>11 DEF Exit
  <2>12. CASE ProcessFails BY <2>12 DEF ProcessFails, Running, Syncing
  <2>13. CASE UNCHANGED vars BY <2>13 DEF vars
  <2>14. QED
    BY <2>1, <2>2, <2>3, <2>4, <2>5, <2>6, <2>7, <2>8, <2>9, <2>10, <2>11, <2>12, <2>13
    DEF Next, Process, Finished
<1>3. QED
  BY <1>1, <1>2, TypeCorrect, PTL DEF Spec

(* What has been said of a flow.  A last line is written when the flow is  *)
(* over, only last lines follow it, and a process that ends well has       *)
(* written "complete" last.                                                *)
LastLines == {"complete", "cancelled"}

Announced == (done /\ monitor = "reading") \/ \E i \in 1..Len(out) : out[i] \in LastLines

Over == /\ request \in {"cancelled", "done"} /\ sas \in {"none", "cancelled", "done"}
        /\ pc \notin {"starting", "prepared"}
        /\ awaiting => pc \in {"end_ok", "end_error", "exit_ok", "exit_error"}

EndsWell == pc \in {"end_ok", "exit_ok"}

Said ==
    /\ Announced => Over
    /\ \A i, j \in 1..Len(out) : i < j /\ out[i] \in LastLines => out[j] \in LastLines
    /\ done => /\ status \in {"done", "cancelled", "failed"}
               /\ \A i \in 1..Len(out) : out[i] \in LastLines
    /\ status = "done" => Verified
    /\ \A i \in 1..Len(out) : out[i] = "complete" => Verified
    /\ EndsWell => /\ Verified
                   /\ IF out = << >> THEN status = "done" ELSE out[Len(out)] = "complete"
    /\ monitor = "gone" => ~Running /\ out = << >> /\ done

LEMMA EmitKeepsSaid ==
  ASSUME TypeOK, Said, UNCHANGED attempt, NEW l \in Lines, Emit(l), Running,
         Announced => l \in LastLines,
         l \in LastLines => Over',
         Over => Over',
         l = "complete" => Verified',
         Verified => Verified',
         EndsWell' => l = "complete"
  PROVE  Said'
<1> USE DEF TypeOK, attempt
<1>1. /\ out' = Append(out, l) /\ out' \in Seq(Lines) /\ Len(out') = Len(out) + 1 /\ Len(out) \in Nat
      /\ \A i \in 1..Len(out) : out'[i] = out[i]
      /\ out'[Len(out) + 1] = l
  BY DEF Emit
<1>2. (Announced => Over)'
  <2>1. SUFFICES ASSUME Announced' PROVE Over'
    OBVIOUS
  <2>2. Announced \/ l \in LastLines
    BY <1>1, <2>1 DEF Announced
  <2>3. QED BY <2>2 DEF Said
<1>3. (\A i, j \in 1..Len(out) : i < j /\ out[i] \in LastLines => out[j] \in LastLines)'
  <2>1. SUFFICES ASSUME NEW i \in 1..Len(out'), NEW j \in 1..Len(out'), i < j, out'[i] \in LastLines
                 PROVE  out'[j] \in LastLines
    OBVIOUS
  <2>2. i \in 1..Len(out) /\ out[i] \in LastLines
    BY <1>1, <2>1
  <2>3. CASE j \in 1..Len(out)
    BY <1>1, <2>1, <2>2, <2>3 DEF Said
  <2>4. CASE j = Len(out) + 1
    BY <1>1, <2>2, <2>4 DEF Announced
  <2>5. QED BY <1>1, <2>3, <2>4
<1>4. (done => /\ status \in {"done", "cancelled", "failed"}
               /\ \A i \in 1..Len(out) : out[i] \in LastLines)'
  <2>1. SUFFICES ASSUME done
                 PROVE  /\ status \in {"done", "cancelled", "failed"}
                        /\ \A i \in 1..Len(out') : out'[i] \in LastLines
    OBVIOUS
  <2>2. l \in LastLines
    BY <2>1 DEF Announced, Said
  <2>3. QED BY <1>1, <2>1, <2>2 DEF Said
<1>5. (status = "done" => Verified)'
  BY DEF Said
<1>6. (\A i \in 1..Len(out) : out[i] = "complete" => Verified)'
  BY <1>1 DEF Said
<1>7. (EndsWell => /\ Verified
                   /\ IF out = << >> THEN status = "done" ELSE out[Len(out)] = "complete")'
  BY <1>1
<1>8. (monitor = "gone" => ~Running /\ out = << >> /\ done)'
  BY DEF Said
<1>9. QED BY <1>2, <1>3, <1>4, <1>5, <1>6, <1>7, <1>8 DEF Said

LEMMA SilenceKeepsSaid ==
  ASSUME Said, UNCHANGED <<attempt, out>>,
         Over => Over',
         Verified => Verified',
         EndsWell' => EndsWell,
         ~Running => ~Running'
  PROVE  Said'
<1> USE DEF attempt
<1>1. Announced' <=> Announced
  BY DEF Announced
<1>2. QED BY <1>1 DEF Said

LEMMA ReadKeepsSaid ==
  ASSUME TypeOK, Said, ReadLine
  PROVE  Said'
<1> USE DEF TypeOK
<1>0. UNCHANGED <<request, sas, pc, awaiting, monitor>>
  BY DEF ReadLine, process, sdk
<1>1. /\ UNCHANGED <<request, sas, pc, awaiting, monitor>>
      /\ out # << >> /\ out' = Tail(out)
      /\ status' = StatusOf[Head(out)] /\ done' = (done \/ Head(out) \in LastLines)
  BY <1>0 DEF ReadLine, LastLines
<1>2. /\ Len(out) \in Nat /\ Len(out) >= 1 /\ Len(out') = Len(out) - 1 /\ Head(out) = out[1]
      /\ out' \in Seq(Lines)
      /\ \A i \in 1..Len(out') : out'[i] = out[i + 1] /\ i + 1 \in 1..Len(out)
      /\ out' = << >> <=> Len(out) = 1
  <2>1. out' \in Seq(Lines) /\ Len(out') = Len(out) - 1 /\ \A i \in 1..Len(out') : out'[i] = out[i + 1]
    BY <1>1, HeadTailProperties
  <2>2. Len(out) \in Nat /\ Len(out) >= 1 /\ Head(out) = out[1]
    BY <1>1, EmptySeq
  <2>3. out' = << >> <=> Len(out') = 0
    BY <2>1, EmptySeq
  <2>4. QED BY <2>1, <2>2, <2>3
<1>3. Head(out) \in Lines
  BY <1>2
<1>4. Over' = Over /\ Verified' = Verified /\ EndsWell' = EndsWell /\ Running' = Running
  BY <1>1 DEF Over, Verified, EndsWell, Running
<1>5. Announced' => Announced
  BY <1>1, <1>2 DEF Announced
<1>6. (\A i, j \in 1..Len(out) : i < j /\ out[i] \in LastLines => out[j] \in LastLines)'
  <2>1. SUFFICES ASSUME NEW i \in 1..Len(out'), NEW j \in 1..Len(out'), i < j, out'[i] \in LastLines
                 PROVE  out'[j] \in LastLines
    OBVIOUS
  <2>2. /\ i + 1 \in 1..Len(out) /\ j + 1 \in 1..Len(out) /\ i + 1 < j + 1
        /\ out[i + 1] \in LastLines /\ out'[j] = out[j + 1]
    BY <1>2, <2>1
  <2>3. \A k, m \in 1..Len(out) : k < m /\ out[k] \in LastLines => out[m] \in LastLines
    BY DEF Said
  <2>4. QED BY <2>2, <2>3
<1>7. done' => \A i \in 1..Len(out') : out'[i] \in LastLines
  <2>1. SUFFICES ASSUME done', NEW i \in 1..Len(out') PROVE out'[i] \in LastLines
    OBVIOUS
  <2>2. CASE done
    BY <1>2, <2>2 DEF Said
  <2>3. CASE out[1] \in LastLines
    <3>1. /\ 1 \in 1..Len(out) /\ i + 1 \in 1..Len(out) /\ 1 < i + 1 /\ out'[i] = out[i + 1]
      BY <1>2, <2>1
    <3>2. \A k, m \in 1..Len(out) : k < m /\ out[k] \in LastLines => out[m] \in LastLines
      BY DEF Said
    <3>3. QED BY <2>3, <3>1, <3>2
  <2>4. QED BY <1>1, <1>2, <2>1, <2>2, <2>3
<1>8. done' => Head(out) \in LastLines
  BY <1>1, <1>2 DEF Said
<1>9. /\ Head(out) \in LastLines => status' \in {"done", "cancelled"}
      /\ status' = "done" <=> Head(out) = "complete"
  BY <1>1, <1>3, LinesAre DEF StatusOf, LastLines
<1>10. status' = "done" => Verified
  BY <1>2, <1>9 DEF Said
<1>11. \A i \in 1..Len(out') : out'[i] = "complete" => Verified
  BY <1>2 DEF Said
<1>12. EndsWell => IF out' = << >> THEN status' = "done" ELSE out'[Len(out')] = "complete"
  <2>1. SUFFICES ASSUME EndsWell
                 PROVE  IF out' = << >> THEN status' = "done" ELSE out'[Len(out')] = "complete"
    OBVIOUS
  <2>2. out[Len(out)] = "complete"
    BY <1>1, <2>1 DEF Said
  <2>3. CASE Len(out) = 1 BY <1>2, <1>9, <2>2, <2>3
  <2>4. CASE Len(out) # 1
    <3>1. Len(out') \in 1..Len(out') /\ Len(out') + 1 = Len(out)
      BY <1>2, <2>4
    <3>2. QED BY <1>2, <2>2, <2>4, <3>1
  <2>5. QED BY <2>3, <2>4
<1>13. monitor # "gone"
  BY <1>1 DEF Said
<1>14. QED
  BY <1>1, <1>4, <1>5, <1>6, <1>7, <1>8, <1>9, <1>10, <1>11, <1>12, <1>13 DEF Said

(* Every step keeps to what has been said.                                 *)
LEMMA SaidKept == Spec => []Said
<1>1. Init => Said
  BY DEF Init, Said, Announced, LastLines, EndsWell
<1>2. TypeOK /\ FlowShape /\ Said /\ [Next]_vars => Said'
  <2> SUFFICES ASSUME TypeOK, FlowShape, Said, [Next]_vars PROVE Said'
    OBVIOUS
  <2> USE LinesAre DEF TypeOK, FlowShape, Syncing, process, sdk, attempt, aux
  <2> USE DEF Over, Verified, EndsWell, Running
  <2>1. ASSUME NEW what \in Decisions, Decide(what) PROVE Said'
    BY <2>1, SilenceKeepsSaid DEF Decide
  <2>2. CASE ReadLine BY <2>2, ReadKeepsSaid
  <2>3. CASE Reap
    <3>1. ~Announced' /\ Len(out) = 0 /\ ~Running'
      BY <2>3 DEF Reap, Announced
    <3>2. status' \in {"done", "cancelled", "failed"}
      BY <2>3 DEF Reap, Said
    <3>3. (status' = "done" => Verified') /\ (EndsWell' => Verified' /\ status' = "done")
      BY <2>3 DEF Reap, Said
    <3>4. QED BY <2>3, <3>1, <3>2, <3>3 DEF Reap, Said
  <2>4. CASE Other \/ FlowEnds
    <3>1. UNCHANGED <<attempt, out, pc, awaiting>>
      BY <2>4 DEF Other, OtherAccepts, OtherStarts, OtherContinues, FlowEnds, Change
    <3>2. Verified => Verified'
      BY <2>4 DEF Other, OtherAccepts, OtherStarts, OtherContinues, FlowEnds, Change, Live
    <3>3. Over => Over'
      BY <2>4, <3>1 DEF Other, OtherAccepts, OtherStarts, OtherContinues, FlowEnds, Change, Live
    <3>4. QED BY <3>1, <3>2, <3>3, SilenceKeepsSaid
  <2>5. CASE SyncFails BY <2>5, SilenceKeepsSaid DEF SyncFails
  <2>6. CASE Prepare
    BY <2>6, EmitKeepsSaid DEF Prepare, LastLines, Said
  <2>7. CASE AlreadyVerified
    BY <2>7, EmitKeepsSaid DEF AlreadyVerified, LastLines, Said
  <2>8. CASE RequestVerification
    BY <2>8, EmitKeepsSaid DEF RequestVerification, LastLines, Said
  <2>9. CASE SeeRequest
    <3>1. PICK l \in {"pending", "started", "cancelled"} :
             Emit(l) /\ (l = "cancelled" <=> request = "cancelled")
                     /\ (l = "cancelled" => pc' = "end_error")
      BY <2>9 DEF SeeRequest
    <3>2. /\ UNCHANGED <<request, sas, awaiting, attempt>>
          /\ request \in {"created", "ready", "transitioned", "cancelled"}
          /\ pc \in {"request", "request_entered"}
          /\ pc' \in {"request", "start_sas", "sas_entered", "end_error"}
      BY <2>9 DEF SeeRequest, Sees, RequestLoop
    <3>3. Announced => l \in LastLines
      BY <3>1, <3>2 DEF Said, LastLines
    <3>4. l \in LastLines => Over'
      BY <3>1, <3>2 DEF LastLines
    <3>5. QED BY <3>1, <3>2, <3>3, <3>4, EmitKeepsSaid
  <2>10. CASE StartSas
    <3>1. CASE request = "ready"
      BY <2>10, <3>1, SilenceKeepsSaid DEF StartSas
    <3>2. CASE request # "ready"
      BY <2>10, <3>2, SilenceKeepsSaid DEF StartSas
    <3>3. QED BY <3>1, <3>2
  <2>11. ASSUME EndFlow, pc' = pc, pc \in {"request", "sas"}, ~awaiting',
                attempt' = attempt, NEW l \in {"rejected", "cancelled"}, Emit(l), l = "rejected" => awaiting
         PROVE  Said'
    <3>1. request' \in {"cancelled", "done"} /\ sas' \in {"none", "cancelled", "done"}
      BY <2>11 DEF EndFlow, Live, Cancelled
    <3>2. Verified => Verified'
      BY <2>11 DEF EndFlow, Live
    <3>3. Over'
      BY <2>11, <3>1
    <3>4. Announced => l \in LastLines
      BY <2>11 DEF Said, LastLines
    <3>5. QED BY <2>11, <3>2, <3>3, <3>4, EmitKeepsSaid
  <2>12. CASE RequestCommand
    <3>1. ~awaiting /\ pc = "request" /\ UNCHANGED <<process, attempt>>
      BY <2>12 DEF RequestCommand
    <3>2. CASE Head(commands).what = "confirm"
      BY <2>12, <3>1, <3>2, SilenceKeepsSaid DEF RequestCommand
    <3>3. CASE Head(commands).what # "confirm"
      BY <2>12, <3>1, <3>3, <2>11 DEF RequestCommand
    <3>4. QED BY <3>2, <3>3
  <2>13. CASE SeeSas
    <3>1. UNCHANGED <<request, sas, attempt>> /\ pc \in {"sas_entered", "sas"}
      BY <2>13 DEF SeeSas, Sees, SasLoop
    <3>2. CASE sas \in {"created", "started", "accepted"}
      <4>1. Emit("started") /\ pc' = "sas" /\ UNCHANGED awaiting
        BY <2>13, <3>2 DEF SeeSas
      <4>2. ~Announced BY <3>2 DEF Said
      <4>3. QED BY <3>1, <3>2, <4>1, <4>2, EmitKeepsSaid DEF LastLines
    <3>3. CASE sas = "keys"
      <4>1. Emit("emoji_ready") /\ pc' = "sas"
        BY <2>13, <3>3 DEF SeeSas
      <4>2. ~Announced BY <3>3 DEF Said
      <4>3. QED BY <3>1, <3>3, <4>1, <4>2, EmitKeepsSaid DEF LastLines
    <3>4. CASE sas = "confirmed"
      <4>1. Emit("confirmed") /\ pc' = "sas"
        BY <2>13, <3>4 DEF SeeSas
      <4>2. ~Announced BY <3>4 DEF Said
      <4>3. QED BY <3>1, <3>4, <4>1, <4>2, EmitKeepsSaid DEF LastLines
    <3>5. CASE sas = "done"
      <4>1. Emit("complete") /\ pc' = "end_ok"
        BY <2>13, <3>5 DEF SeeSas
      <4>2. QED BY <3>1, <3>5, <4>1, EmitKeepsSaid DEF LastLines
    <3>6. CASE sas = "cancelled"
      <4>1. Emit("cancelled") /\ pc' = "end_error"
        BY <2>13, <3>6 DEF SeeSas
      <4>2. QED BY <3>1, <3>6, <4>1, EmitKeepsSaid DEF LastLines
    <3>7. QED BY <2>13, <3>2, <3>3, <3>4, <3>5, <3>6 DEF SeeSas
  <2>14. CASE SasCommand
    <3>1. pc = "sas" /\ pc' = pc /\ UNCHANGED attempt
      BY <2>14 DEF SasCommand
    <3>2. CASE Head(commands).what # "confirm"
      <4>1. RefuseSas(Head(commands).what) BY <2>14, <3>2 DEF SasCommand
      <4>2. EndFlow /\ ~awaiting' BY <4>1 DEF RefuseSas
      <4>3. PICK l \in {"rejected", "cancelled"} : Emit(l) /\ (l = "rejected" => awaiting)
        BY <4>1 DEF RefuseSas
      <4>4. QED BY <2>11, <3>1, <4>2, <4>3
    <3>3. CASE Head(commands).what = "confirm" /\ awaiting
      <4>1. Emit("confirmed") /\ UNCHANGED request
        BY <2>14, <3>3 DEF SasCommand, ConfirmSas
      <4>2. ~Over BY <3>1, <3>3
      <4>3. ~Announced BY <4>2 DEF Said
      <4>4. QED BY <3>1, <4>1, <4>2, <4>3, EmitKeepsSaid DEF LastLines
    <3>4. CASE Head(commands).what = "confirm" /\ ~awaiting
      BY <2>14, <3>1, <3>4, SilenceKeepsSaid DEF SasCommand
    <3>5. QED BY <3>2, <3>3, <3>4
  <2>15. CASE Exit BY <2>15, SilenceKeepsSaid DEF Exit
  <2>16. CASE ProcessFails BY <2>16, SilenceKeepsSaid DEF ProcessFails
  <2>17. CASE UNCHANGED vars BY <2>17, SilenceKeepsSaid DEF vars
  <2>18. QED
    BY <2>1, <2>2, <2>3, <2>4, <2>5, <2>6, <2>7, <2>8, <2>9, <2>10, <2>12, <2>13, <2>14,
       <2>15, <2>16, <2>17
    DEF Next, Process, Finished
<1>3. QED
  BY <1>1, <1>2, TypeCorrect, ShapeKept, PTL DEF Spec

(* Whatever the order of lines, decisions and the end of the process: the  *)
(* attempt that is reported as done has verified the device, and a process *)
(* that verified it is reported as done.                                   *)
THEOREM ReportIsTrue == Spec => []ReportAgrees
<1>1. Said => ReportAgrees
  BY DEF Said, ReportAgrees, EndsWell, Running
<1>2. QED
  BY <1>1, SaidKept, PTL

-----------------------------------------------------------------------------
(* A flow the process waits for and that is over has left a change in the  *)
(* stream; the comparison is there before the process waits for it, and    *)
(* cannot be over before.                                                  *)
Watched ==
    /\ pc \in {"request", "start_sas", "sas"} => fresh \/ Live
    /\ pc \in {"request_entered", "request", "start_sas"} =>
          request # "done" /\ sas \in {"none", "started", "cancelled"}
    /\ pc \in {"sas_entered", "sas"} \/ request = "transitioned" => sas # "none"

(* Whatever the other device, the user and the sync task's errors do       *)
(* between two looks at the stream, an open attempt has a next step, unless*)
(* stderr is full.                                                         *)
THEOREM NoLostWakeUp == Spec => []AttemptGoesOn
<1>1. Init => Watched
  BY DEF Init, Watched
<1>2. TypeOK /\ FlowShape /\ Watched /\ [Next]_vars => Watched'
  <2> SUFFICES ASSUME TypeOK, FlowShape, Watched, [Next]_vars PROVE Watched'
    OBVIOUS
  <2> USE DEF TypeOK, FlowShape, Watched, Live, process, sdk, attempt, aux
  <2>1. CASE \E what \in Decisions : Decide(what)
    BY <2>1 DEF Decide
  <2>2. CASE ReadLine \/ Reap \/ SyncFails
    BY <2>2 DEF ReadLine, Reap, SyncFails
  <2>3. ASSUME NEW r, NEW s, Change(r, s),
               \/ r = "ready" /\ s = "none" /\ request = "created"
               \/ r = "transitioned" /\ s = "started" /\ request = "ready"
               \/ r = request /\ s = "accepted" /\ sas = "created"
               \/ r = request /\ s = "keys" /\ sas = "accepted"
               \/ r = "done" /\ s = "done" /\ sas = "confirmed"
               \/ r = "cancelled" /\ s = Cancelled(sas)
        PROVE  Watched'
    <3>1. request' = r /\ sas' = s /\ fresh' = TRUE /\ pc' = pc BY <2>3 DEF Change
    <3>2. QED BY <2>3, <3>1 DEF Cancelled
  <2>4. CASE Other \/ FlowEnds
    BY <2>3, <2>4 DEF Other, OtherAccepts, OtherStarts, OtherContinues, FlowEnds
  <2>5. CASE Prepare \/ AlreadyVerified \/ RequestVerification
    BY <2>5 DEF Prepare, AlreadyVerified, RequestVerification
  <2>6. CASE SeeRequest
    BY <2>6 DEF SeeRequest, Sees, RequestLoop
  <2>7. CASE StartSas
    <3>1. CASE request = "ready" BY <2>7, <3>1 DEF StartSas
    <3>2. CASE request # "ready" BY <2>7, <3>2 DEF StartSas
    <3>3. QED BY <3>1, <3>2
  <2>8. ASSUME EndFlow, pc' = pc PROVE Watched'
    <3>1. CASE Live BY <2>8, <3>1 DEF EndFlow, Cancelled
    <3>2. CASE ~Live BY <2>8, <3>2 DEF EndFlow
    <3>3. QED BY <3>1, <3>2
  <2>9. CASE RequestCommand
    BY <2>8, <2>9 DEF RequestCommand
  <2>10. CASE SeeSas
    BY <2>10 DEF SeeSas, Sees, SasLoop
  <2>11. CASE SasCommand
    <3>1. CASE Head(commands).what # "confirm"
      BY <2>8, <2>11, <3>1 DEF SasCommand, RefuseSas
    <3>2. CASE Head(commands).what = "confirm"
      BY <2>11, <3>2 DEF SasCommand, ConfirmSas
    <3>3. QED BY <3>1, <3>2
  <2>12. CASE Exit BY <2>12 DEF Exit
  <2>13. CASE ProcessFails BY <2>13 DEF ProcessFails
  <2>14. CASE UNCHANGED vars BY <2>14 DEF vars
  <2>15. QED
    BY <2>1, <2>2, <2>4, <2>5, <2>6, <2>7, <2>9, <2>10, <2>11, <2>12, <2>13, <2>14
    DEF Next, Process, Finished
<1>3. TypeOK /\ FlowShape /\ Watched /\ ReportAgrees => AttemptGoesOn
  BY DEF TypeOK, FlowShape, Syncing, Watched, ReportAgrees, AttemptGoesOn, Running
<1>4. QED
  BY <1>1, <1>2, <1>3, TypeCorrect, ShapeKept, ReportIsTrue, PTL DEF Spec

-----------------------------------------------------------------------------
(* The attempt keeps the promise of VerificationVerdict.                   *)

(* "complete" is the last thing a process says, whether it then ends well  *)
(* or is killed, so nothing can be read after it.                          *)
HasCompleted == pc \in {"end_ok", "exit_ok", "exit_error"}

CompleteIsLast ==
    /\ \A i \in 1..Len(out) : out[i] = "complete" => i = Len(out) /\ HasCompleted
    /\ status = "done" => out = << >> /\ HasCompleted

LEMMA EmitKeepsLast ==
  ASSUME TypeOK, CompleteIsLast, UNCHANGED attempt, NEW l \in Lines, Emit(l),
         ~HasCompleted, l = "complete" => HasCompleted'
  PROVE  CompleteIsLast'
<1> USE DEF TypeOK, attempt
<1>1. /\ out' \in Seq(Lines) /\ Len(out') = Len(out) + 1 /\ Len(out) \in Nat
      /\ \A i \in 1..Len(out) : out'[i] = out[i]
      /\ out'[Len(out) + 1] = l
  BY DEF Emit
<1>2. status' # "done"
  BY DEF CompleteIsLast
<1>3. ASSUME NEW i \in 1..Len(out'), out'[i] = "complete"
      PROVE  i = Len(out') /\ HasCompleted'
  <2>1. i \notin 1..Len(out)
    BY <1>1, <1>3 DEF CompleteIsLast
  <2>2. i = Len(out) + 1
    BY <1>1, <2>1
  <2>3. QED BY <1>1, <1>3, <2>2
<1>4. QED BY <1>2, <1>3 DEF CompleteIsLast

LEMMA SilenceKeepsLast ==
  ASSUME CompleteIsLast, UNCHANGED <<status, out>>, HasCompleted => HasCompleted'
  PROVE  CompleteIsLast'
BY DEF CompleteIsLast

LEMMA ReadKeepsLast ==
  ASSUME TypeOK, CompleteIsLast, ReadLine
  PROVE  CompleteIsLast'
<1> USE LinesAre DEF TypeOK
<1>1. UNCHANGED pc /\ out # << >> /\ out' = Tail(out) /\ status' = StatusOf[Head(out)]
  BY DEF ReadLine, process
<1>2. /\ Len(out) \in Nat /\ Len(out) >= 1 /\ Len(out') = Len(out) - 1 /\ Head(out) = out[1]
      /\ out' \in Seq(Lines)
      /\ \A i \in 1..Len(out') : out'[i] = out[i + 1]
  BY <1>1, HeadTailProperties, EmptySeq
<1>3. \A k \in 1..Len(out) : out[k] = "complete" => k = Len(out) /\ HasCompleted
  BY DEF CompleteIsLast
<1>4. ASSUME NEW i \in 1..Len(out'), out'[i] = "complete"
      PROVE  i = Len(out') /\ HasCompleted'
  <2>1. i + 1 \in 1..Len(out) /\ out[i + 1] = "complete"
    BY <1>2, <1>4
  <2>2. i + 1 = Len(out) /\ HasCompleted
    BY <1>3, <2>1
  <2>3. i = Len(out')
    BY <1>2, <2>2
  <2>4. HasCompleted'
    BY <1>1, <2>2 DEF HasCompleted
  <2>5. QED BY <2>3, <2>4
<1>5. ASSUME status' = "done"
      PROVE  out' = << >> /\ HasCompleted'
  <2>1. out[1] = "complete" /\ 1 \in 1..Len(out)
    BY <1>1, <1>2, <1>5 DEF StatusOf
  <2>2. Len(out) = 1 /\ HasCompleted
    BY <1>3, <2>1
  <2>3. QED BY <1>1, <1>2, <2>2, EmptySeq DEF HasCompleted
<1>6. QED BY <1>4, <1>5 DEF CompleteIsLast

LEMMA CompleteStaysLast == Spec => []CompleteIsLast
<1>1. Init => CompleteIsLast
  BY DEF Init, CompleteIsLast
<1>2. TypeOK /\ Said /\ CompleteIsLast /\ [Next]_vars => CompleteIsLast'
  <2> SUFFICES ASSUME TypeOK, Said, CompleteIsLast, [Next]_vars PROVE CompleteIsLast'
    OBVIOUS
  <2> USE LinesAre DEF TypeOK, HasCompleted, process, sdk, attempt, aux
  <2>1. ASSUME NEW what \in Decisions, Decide(what) PROVE CompleteIsLast'
    BY <2>1, SilenceKeepsLast DEF Decide
  <2>2. CASE ReadLine BY <2>2, ReadKeepsLast
  <2>3. CASE Reap
    <3>1. UNCHANGED <<out, pc>> /\ out = << >> /\ (status' = "done" => status = "done" \/ pc = "exit_ok")
      BY <2>3 DEF Reap
    <3>2. Len(out) = 0
      BY <3>1
    <3>3. QED BY <3>1, <3>2 DEF CompleteIsLast
  <2>4. CASE Other \/ FlowEnds \/ SyncFails
    BY <2>4, SilenceKeepsLast
    DEF Other, OtherAccepts, OtherStarts, OtherContinues, FlowEnds, Change, SyncFails
  <2>5. CASE Prepare BY <2>5, EmitKeepsLast DEF Prepare
  <2>6. CASE AlreadyVerified BY <2>6, EmitKeepsLast DEF AlreadyVerified
  <2>7. CASE RequestVerification BY <2>7, EmitKeepsLast DEF RequestVerification
  <2>8. CASE SeeRequest
    <3>1. /\ \E l \in {"pending", "started", "cancelled"} : Emit(l)
          /\ ~HasCompleted /\ UNCHANGED attempt
      BY <2>8 DEF SeeRequest, Sees, RequestLoop
    <3>2. QED BY <3>1, EmitKeepsLast
  <2>9. CASE StartSas BY <2>9, SilenceKeepsLast DEF StartSas
  <2>10. CASE RequestCommand
    <3>1. ~HasCompleted /\ UNCHANGED <<pc, attempt>> /\ (UNCHANGED out \/ Emit("cancelled"))
      BY <2>10 DEF RequestCommand
    <3>2. QED BY <3>1, EmitKeepsLast, SilenceKeepsLast
  <2>11. CASE SeeSas
    <3>1. /\ \E l \in Lines : Emit(l) /\ (l = "complete" => pc' = "end_ok")
          /\ ~HasCompleted /\ UNCHANGED attempt
      BY <2>11 DEF SeeSas, Sees, SasLoop
    <3>2. QED BY <3>1, EmitKeepsLast
  <2>12. CASE SasCommand
    <3>1. /\ UNCHANGED out \/ \E l \in {"confirmed", "rejected", "cancelled"} : Emit(l)
          /\ ~HasCompleted /\ UNCHANGED <<pc, attempt>>
      BY <2>12 DEF SasCommand, RefuseSas, ConfirmSas
    <3>2. QED BY <3>1, EmitKeepsLast, SilenceKeepsLast
  <2>13. CASE Exit
    <3>1. pc = "end_ok" \/ ~HasCompleted
      BY <2>13 DEF Exit
    <3>2. QED BY <2>13, <3>1, SilenceKeepsLast DEF Exit
  <2>14. CASE ProcessFails BY <2>14, SilenceKeepsLast DEF ProcessFails, Running, Syncing
  <2>15. CASE UNCHANGED vars BY <2>15, SilenceKeepsLast DEF vars
  <2>16. QED
    BY <2>1, <2>2, <2>3, <2>4, <2>5, <2>6, <2>7, <2>8, <2>9, <2>10, <2>11, <2>12, <2>13,
       <2>14, <2>15
    DEF Next, Process, Finished
<1>3. QED
  BY <1>1, <1>2, TypeCorrect, SaidKept, PTL DEF Spec

(* The flow, and the process while nothing is reported.                    *)
LEMMA FlowGoesOn ==
  ASSUME TypeOK, FlowShape, UNCHANGED attempt, Running, Running',
         request' # request =>
             request \notin {"done", "cancelled"}
  PROVE  Promise!Next \/ UNCHANGED <<Flow, Ended, Verdict, monitor = "gone">>
<1>1. UNCHANGED <<Ended, Verdict, monitor = "gone">> /\ Ended = "no"
  BY DEF attempt, Ended, Verdict
<1>2. Flow' = Flow \/ (Flow = "open" /\ Flow' \in {"verified", "off"})
  BY DEF TypeOK, Flow, Verified
<1>3. QED BY <1>1, <1>2 DEF Promise!Next, Promise!Settle

(* Every line the bridge reads, every decision and every end of the        *)
(* process is a step of the promise or leaves it alone: a verdict is only  *)
(* taken back to say that the device has been verified after all.          *)
THEOREM KeepsThePromise == Spec => VerdictSpec
<1>1. Init => Promise!Init
  BY DEF Init, Promise!Init, Flow, Verified, Ended, Running, Verdict
<1>2. /\ TypeOK /\ FlowShape /\ Said /\ Said' /\ CompleteIsLast /\ [Next]_vars
      => Promise!Next \/ UNCHANGED <<Flow, Ended, Verdict, monitor = "gone">>
  <2> SUFFICES ASSUME TypeOK, FlowShape, Said, Said', CompleteIsLast, [Next]_vars
               PROVE  Promise!Next \/ UNCHANGED <<Flow, Ended, Verdict, monitor = "gone">>
    OBVIOUS
  <2> DEFINE Goal == Promise!Next \/ UNCHANGED <<Flow, Ended, Verdict, monitor = "gone">>
  <2> USE DEF TypeOK, process, sdk, attempt, aux
  <2>1. ASSUME NEW what \in Decisions, Decide(what) PROVE Goal
    BY <2>1 DEF Decide, Flow, Verified, Ended, Running, Verdict
  <2>2. CASE ReadLine
    <3>1. UNCHANGED <<Flow, Ended, monitor>> /\ monitor = "reading" /\ out # << >>
      BY <2>2 DEF ReadLine, Said, Flow, Verified, Ended, Running
    <3>2. CASE ~done'
      BY <2>2, <3>1, <3>2 DEF ReadLine, Verdict
    <3>3. CASE done'
      <4>1. Announced
        <5>1. CASE done BY <3>1, <5>1 DEF Announced
        <5>2. CASE ~done
          <6>1. Head(out) \in LastLines
            BY <2>2, <3>3, <5>2 DEF ReadLine, LastLines
          <6>2. 1 \in 1..Len(out) /\ Head(out) = out[1]
            BY <3>1, EmptySeq
          <6>3. QED BY <6>1, <6>2 DEF Announced
        <5>3. QED BY <5>1, <5>2
      <4>2. Flow # "open"
        BY <4>1 DEF Said, Over, Flow, Verified
      <4>3. Verdict # "done" /\ Verdict' \in {"done", "not_done"}
        BY <3>1, <3>3 DEF CompleteIsLast, Verdict
      <4>4. Verdict' = "done" => Flow = "verified"
        BY <3>1, <3>3 DEF Said, Verdict, Flow
      <4>5. QED BY <3>1, <4>2, <4>3, <4>4 DEF Promise!Next, Promise!Report
    <3>4. QED BY <3>2, <3>3
  <2>3. CASE Reap
    <3>1. /\ UNCHANGED <<Flow, Ended>> /\ Ended # "no"
          /\ monitor = "reading" /\ monitor' = "gone" /\ done'
      BY <2>3 DEF Reap, Flow, Verified, Ended, Running
    <3>2. Verdict # "open" => Verdict' = Verdict
      BY <2>3 DEF Reap, Verdict
    <3>3. Verdict' = "done" => Flow = "verified"
      BY <3>1 DEF Said, Verdict, Flow
    <3>4. Ended = "well" => Verdict' = "done"
      <4>1. SUFFICES ASSUME pc = "exit_ok" PROVE status' = "done"
        BY <3>1 DEF Ended, Verdict
      <4>2. QED BY <2>3, <4>1 DEF Reap, Said, EndsWell
    <3>5. QED BY <3>1, <3>2, <3>3, <3>4 DEF Verdict, Promise!Next, Promise!Close
  <2>4. CASE Other \/ FlowEnds
    BY <2>4, FlowGoesOn
    DEF Other, OtherAccepts, OtherStarts, OtherContinues, FlowEnds, Live, Change, Syncing,
        Running, FlowShape
  <2>5. CASE SyncFails \/ StartSas
    BY <2>5, FlowGoesOn DEF SyncFails, StartSas, Syncing, Running
  <2>6. CASE Prepare \/ RequestVerification
    BY <2>6, FlowGoesOn DEF Prepare, RequestVerification, Running, FlowShape
  <2>7. CASE AlreadyVerified
    <3>1. /\ Flow = "open" /\ Flow' = "verified" /\ Ended = "no" /\ Ended' = "well"
          /\ UNCHANGED <<Verdict, monitor = "gone">>
      BY <2>7 DEF AlreadyVerified, FlowShape, Flow, Verified, Ended, Running, Verdict
    <3>2. QED BY <3>1 DEF Promise!Next, Promise!End
  <2>8. CASE SeeRequest
    BY <2>8, FlowGoesOn DEF SeeRequest, Sees, RequestLoop, Running
  <2>9. CASE SeeSas
    BY <2>9, FlowGoesOn DEF SeeSas, Sees, SasLoop, Running
  <2>10. CASE RequestCommand
    BY <2>10, FlowGoesOn DEF RequestCommand, EndFlow, Live, Running
  <2>11. CASE SasCommand
    BY <2>11, FlowGoesOn DEF SasCommand, RefuseSas, ConfirmSas, EndFlow, Live, Running
  <2>12. CASE Exit
    <3>1. /\ UNCHANGED <<Flow, Verdict, monitor = "gone">> /\ Ended = "no"
          /\ Ended' \in {"well", "badly"}
          /\ Ended' = "well" => pc = "end_ok"
      BY <2>12 DEF Exit, Flow, Verified, Ended, Running, Verdict
    <3>2. pc = "end_ok" => Flow = "verified"
      BY DEF Said, EndsWell, Flow
    <3>3. QED BY <3>1, <3>2 DEF Promise!Next, Promise!End
  <2>13. CASE ProcessFails
    <3>1. CASE pc' = "exit_error"
      <4>1. /\ UNCHANGED <<Flow, Verdict, monitor = "gone">>
            /\ Ended = "no" /\ Ended' = "badly"
        BY <2>13, <3>1 DEF ProcessFails, Flow, Verified, Ended, Running, Verdict
      <4>2. QED BY <4>1 DEF Promise!Next, Promise!End
    <3>2. CASE pc' = "end_error"
      BY <2>13, <3>2, FlowGoesOn DEF ProcessFails, Running
    <3>3. QED BY <2>13, <3>1, <3>2 DEF ProcessFails
  <2>14. CASE UNCHANGED vars
    BY <2>14 DEF vars, Flow, Verified, Ended, Running, Verdict
  <2>15. QED
    BY <2>1, <2>2, <2>3, <2>4, <2>5, <2>6, <2>7, <2>8, <2>9, <2>10, <2>11, <2>12, <2>13,
       <2>14
    DEF Next, Process, Finished
<1>3. QED
  BY <1>1, <1>2, TypeCorrect, ShapeKept, SaidKept, CompleteStaysLast, PTL
  DEF Spec, VerdictSpec, Promise!Spec
=============================================================================
