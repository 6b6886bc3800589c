--------------------------- MODULE ProcessProofs ----------------------------
(***************************************************************************)
(* Proofs about Process.tla, for every environment and every child: a Job  *)
(* is counted once under one credential, and what Run of the Claude runner *)
(* returns is what the child did.                                          *)
(*                                                                         *)
(* The two parts share no variable, so each has an inductive invariant of  *)
(* its own, which a step of the other leaves alone.                        *)
(***************************************************************************)
EXTENDS Process, SelectionProofs

-----------------------------------------------------------------------------
(* Start-up.                                                               *)

BeforeTheAgent == {"flags", "auth", "setup", "deliverer", "chain", "select", "run"}

(* Until the agent has run nothing was delivered, counted or decided.      *)
NothingYet == pc \in BeforeTheAgent => delivered = <<>> /\ recorded = <<>> /\ exit = "none"

(* A run by hand goes from its flags to the agent; who is past the flags   *)
(* had good ones, or is gone.                                              *)
PathIsKnown == /\ Local => pc \notin {"auth", "setup", "deliverer", "chain"}
               /\ pc \notin {"flags", "exited"} => env.flagsOK

(* Which credential there is, and who has it already.                      *)
CredentialSoFar ==
    /\ pc \in {"flags", "auth"} => token = "none" /\ ghToken = "none"
    /\ pc \in {"setup", "deliverer", "chain", "select", "run"} =>
         /\ token # "none"
         /\ ~Local /\ env.app /\ env.pem => token = "app"
    /\ pc \in {"deliverer", "chain", "select", "run"} => ghToken = token /\ helper

(* The producers that are open, and the brokers a task needs.              *)
ProducersSoFar ==
    /\ pc \in {"flags", "auth", "setup", "deliverer"} => producers = {}
    /\ pc = "chain" => /\ producers = IF env.task THEN {"result"} ELSE {}
                       /\ env.task => env.brokers
    /\ pc \in {"select", "run"} =>
         producers = {p \in {"result", "chain"} : env.brokers /\ (p = "result" => env.task)}

(* From the first deferred call on a Job has been counted.                 *)
CountedAtTheEnd ==
    pc \in {"cleanup", "push", "exited"} /\ ~Local /\ env.flagsOK =>
        /\ Len(recorded) = 1
        /\ recorded # <<"failed">> => delivered = recorded

ClosedAtTheEnd == delivered # <<>> /\ pc \in {"push", "exited"} => producers = {}

StartUpIInv == /\ StartUpTypeOK
               /\ env \in Environments
               /\ NothingYet
               /\ PathIsKnown
               /\ CredentialSoFar
               /\ ProducersSoFar
               /\ CountedAtTheEnd
               /\ ClosedAtTheEnd

-----------------------------------------------------------------------------
(* The Claude runner.                                                      *)

(* The lines the scanner has read.                                         *)
Read == written - Len(pipe)

ResultsAt == {i \in DOMAIN script : IsResult(script[i])}

BodiesAt == {i \in DOMAIN script : script[i] = "toolresult"}

LastOf(kept) == IF kept = <<>> THEN NoText ELSE kept[Len(kept)]

EndOf(s, n) == SubSeq(s, IF n > TailMax THEN n - TailMax + 1 ELSE 1, n)

(* What the scanner knows is what the first n lines of the child say.      *)
Digested(n) == /\ text = LastOf(KeepAt(SubSeq(script, 1, n), ResultsAt))
               /\ logged = KeepAt(SubSeq(script, 1, n), BodiesAt)
               /\ tail = EndOf(script, n)

(* The pipe holds the lines that were written and not yet read.            *)
PipeInv == /\ Len(pipe) <= written
           /\ \A k \in 1..Len(pipe) : pipe[k] = script[Read + k]

(* A scan ends with nothing, or with everything the child wrote.           *)
ScanInv == /\ run = "scan" => Digested(Read)
           /\ run # "scan" => \/ /\ text = NoText /\ tail = <<>>
                                 /\ cancelled \/ Huge
                              \/ /\ pipe = <<>> /\ child # "running"
                                 /\ Digested(written)

ReturnInv == /\ child = "ok" => written = Len(script)
             /\ run = "answered" => child = "ok" /\ text # NoText

RunnerIInv == /\ RunnerTypeOK
              /\ PipeInv
              /\ ScanInv
              /\ ReturnInv

(* The inductive invariant of the two.                                     *)
IInv == StartUpIInv /\ RunnerIInv

-----------------------------------------------------------------------------
(* Every part starts in its invariant, the parts that rest included.       *)
LEMMA InitStartUp == Init => StartUpIInv
<1> SUFFICES ASSUME Init PROVE StartUpIInv
  OBVIOUS
<1> USE DEF Init, StartUpInit, Environments, EnvType
<1>1. env \in Environments /\ env \in EnvType
  OBVIOUS
<1>2. StartUpTypeOK
  <2>1. delivered \in Seq(Statuses) /\ recorded \in Seq(Statuses)
    OBVIOUS
  <2> QED
    BY <1>1, <2>1 DEF StartUpTypeOK
<1>3. NothingYet /\ PathIsKnown /\ CredentialSoFar /\ ProducersSoFar
  BY DEF NothingYet, PathIsKnown, CredentialSoFar, ProducersSoFar, Local, BeforeTheAgent
<1>4. CountedAtTheEnd /\ ClosedAtTheEnd
  BY DEF CountedAtTheEnd, ClosedAtTheEnd
<1> QED
  BY <1>1, <1>2, <1>3, <1>4 DEF StartUpIInv

(* Every step of the start-up keeps its invariant.                         *)
LEMMA StepStartUp == StartUpIInv /\ StartUpNext => StartUpIInv'
<1> SUFFICES ASSUME StartUpIInv, StartUpNext PROVE StartUpIInv'
  OBVIOUS
<1> USE DEF StartUpIInv, StartUpTypeOK, NothingYet, PathIsKnown, CredentialSoFar,
            ProducersSoFar, CountedAtTheEnd, ClosedAtTheEnd, Local, BeforeTheAgent,
            startUpVars, authVars, endVars, Statuses, Abort, AbortRunning
<1>0. env \in EnvType /\ env \in Environments
  OBVIOUS
<1>a. \A t \in Statuses : /\ Append(<<>>, t) = <<t>> /\ Append(<<>>, t) \in Seq(Statuses)
                          /\ Len(<<t>>) = 1 /\ <<t>> # <<>>
  OBVIOUS
<1>1. CASE ParseFlags
  BY <1>1 DEF ParseFlags, Environments
<1>b. /\ pc \in BeforeTheAgent => delivered = <<>> /\ recorded = <<>> /\ exit = "none"
      /\ recorded \in Seq(Statuses) /\ delivered \in Seq(Statuses)
  OBVIOUS
<1>c. \A t \in Statuses : pc \in BeforeTheAgent =>
        /\ Append(recorded, t) = <<t>> /\ Append(delivered, t) = <<t>>
  BY <1>a, <1>b
<1>d. \A t \in Statuses : <<t>> \in Seq(Statuses) /\ Len(<<t>>) = 1 /\ <<t>> # <<>>
  BY <1>a
<1>e. ASSUME pc \in {"auth", "setup", "deliverer", "chain"}, Abort
      PROVE  /\ pc' = "push" /\ exit' = "error" /\ recorded' = <<"failed">> /\ pushed' = pushed
             /\ recorded' \in Seq(Statuses) /\ Len(recorded') = 1
  <2>1. ~Local
    BY <1>e
  <2> QED
    BY <1>c, <1>d, <1>e, <2>1
<1>f. ASSUME pc \in {"select", "run"}, AbortRunning
      PROVE  /\ pc' = "cleanup" /\ exit' = "error" /\ pushed' = pushed
             /\ recorded' = (IF Local THEN <<>> ELSE <<"failed">>)
             /\ recorded' \in Seq(Statuses) /\ (~Local => Len(recorded') = 1)
  BY <1>b, <1>c, <1>d, <1>f
<1>2. CASE ResolveAuth
  <2>1. CASE Abort
    BY <1>2, <1>b, <1>e, <2>1 DEF ResolveAuth
  <2>2. CASE ~Abort
    BY <1>2, <2>2 DEF ResolveAuth
  <2> QED
    BY <2>1, <2>2
<1>3. CASE SetupGit
  <2>1. CASE Abort
    BY <1>3, <1>b, <1>e, <2>1 DEF SetupGit
  <2>2. CASE ~Abort
    BY <1>3, <2>2 DEF SetupGit
  <2> QED
    BY <2>1, <2>2
<1>4. CASE CreateResultDeliverer
  <2>1. CASE Abort
    BY <1>4, <1>b, <1>e, <2>1 DEF CreateResultDeliverer
  <2>2. CASE ~Abort
    BY <1>4, <2>2 DEF CreateResultDeliverer
  <2> QED
    BY <2>1, <2>2
<1>5. CASE BuildChainEmitter
  <2>1. CASE Abort
    BY <1>5, <1>b, <1>e, <2>1 DEF BuildChainEmitter
  <2>2. CASE ~Abort
    BY <1>5, <2>2 DEF BuildChainEmitter
  <2> QED
    BY <2>1, <2>2
<1>6. CASE SelectAgent
  <2>1. CASE AbortRunning
    BY <1>6, <1>b, <1>f, <2>1 DEF SelectAgent
  <2>2. CASE ~AbortRunning
    BY <1>6, <2>2 DEF SelectAgent
  <2> QED
    BY <2>1, <2>2
<1>7. CASE RunAgent
  <2>1. /\ pc = "run" /\ UNCHANGED <<env, stopped, authVars, producers>>
        /\ pc' = "cleanup" /\ exit' \in {"ok", "error"} /\ pushed' = pushed
    BY <1>7 DEF RunAgent
  <2>2. /\ recorded' \in Seq(Statuses) /\ delivered' \in Seq(Statuses)
        /\ ~Local => /\ Len(recorded') = 1
                     /\ recorded' # <<"failed">> => delivered' = recorded'
    <3>1. CASE AbortRunning /\ delivered' \in {delivered} \cup {Append(delivered, t) : t \in Statuses}
      BY <1>b, <1>c, <1>d, <1>f, <2>1, <3>1
    <3>2. ASSUME NEW t \in Statuses, delivered' = Append(delivered, t),
                 recorded' = IF Local THEN recorded ELSE Append(recorded, t)
          PROVE  /\ recorded' \in Seq(Statuses) /\ delivered' \in Seq(Statuses)
                 /\ ~Local => Len(recorded') = 1 /\ delivered' = recorded'
      BY <1>b, <1>c, <1>d, <2>1, <3>2
    <3> QED
      BY <1>7, <3>1, <3>2 DEF RunAgent
  <2> QED
    BY <2>1, <2>2
<1>8. CASE Cleanup
  BY <1>8 DEF Cleanup
<1>9. CASE PushMetrics
  <2>1. /\ pc = "push" /\ pc' = "exited" /\ pushed' \in BOOLEAN
        /\ UNCHANGED <<env, stopped, authVars, producers, delivered, recorded, exit>>
    BY <1>9 DEF PushMetrics
  <2> QED
    BY <2>1
<1>10. CASE Stop
  BY <1>10 DEF Stop
<1>11. CASE StartUpOver
  BY <1>11 DEF StartUpOver
<1> QED
  BY <1>1, <1>2, <1>3, <1>4, <1>5, <1>6, <1>7, <1>8, <1>9, <1>10, <1>11 DEF StartUpNext

-----------------------------------------------------------------------------
(* A prefix one line longer is the prefix and that line.                   *)
LEMMA PrefixGrows ==
    ASSUME NEW S, NEW s \in Seq(S), NEW n \in Nat, n < Len(s)
    PROVE  /\ SubSeq(s, 1, n) \in Seq(S) /\ Len(SubSeq(s, 1, n)) = n
           /\ s[n + 1] \in S
           /\ SubSeq(s, 1, n + 1) = Append(SubSeq(s, 1, n), s[n + 1])
OBVIOUS

(* Nothing and everything are prefixes.                                    *)
LEMMA PrefixEnds ==
    ASSUME NEW S, NEW s \in Seq(S)
    PROVE  SubSeq(s, 1, 0) = <<>> /\ SubSeq(s, 1, Len(s)) = s
OBVIOUS

(* appendPlanningTail keeps the last lines.                                *)
LEMMA TailGrows ==
    ASSUME NEW S, NEW s \in Seq(S), NEW n \in Nat, n < Len(s)
    PROVE  /\ AppendPlanningTail(EndOf(s, n), s[n + 1]) = EndOf(s, n + 1)
           /\ EndOf(s, n) \in Seq(S) /\ Len(EndOf(s, n)) <= TailMax
<1>1. TailMax \in Nat /\ TailMax > 0
  BY RunnerAssumption
<1> DEFINE t == EndOf(s, n)
           all == Append(t, s[n + 1])
<1>2. CASE n < TailMax
  <2>1. t = SubSeq(s, 1, n) /\ EndOf(s, n + 1) = SubSeq(s, 1, n + 1)
    BY <1>1, <1>2 DEF EndOf
  <2>2. t \in Seq(S) /\ Len(t) = n /\ all = EndOf(s, n + 1)
    BY <2>1, PrefixGrows
  <2>3. Len(all) = n + 1
    BY <2>2
  <2> QED
    BY <1>1, <1>2, <2>2, <2>3 DEF AppendPlanningTail
<1>3. CASE n >= TailMax
  <2> DEFINE m == n - TailMax + 1
  <2>1. /\ m \in Nat /\ m >= 1 /\ m <= n
        /\ EndOf(s, n + 1) = SubSeq(s, m + 1, n + 1)
    BY <1>1, <1>3 DEF EndOf
  <2>2. t = SubSeq(s, m, n)
    BY <1>1, <1>3 DEF EndOf
  <2>3. t \in Seq(S) /\ Len(t) = TailMax /\ \A i \in 1..TailMax : t[i] = s[m + i - 1]
    BY <1>1, <2>1, <2>2
  <2>4. all \in Seq(S) /\ Len(all) = TailMax + 1
    BY <2>3
  <2>5. \A i \in 1..TailMax : Tail(all)[i] = s[m + i]
    BY <1>1, <2>1, <2>3, <2>4
  <2>6. Len(Tail(all)) = TailMax /\ Tail(all) \in Seq(S)
    BY <1>1, <2>4
  <2>7. /\ SubSeq(s, m + 1, n + 1) \in Seq(S) /\ Len(SubSeq(s, m + 1, n + 1)) = TailMax
        /\ \A i \in 1..TailMax : SubSeq(s, m + 1, n + 1)[i] = s[m + i]
    BY <1>1, <2>1
  <2>8. Tail(all) = SubSeq(s, m + 1, n + 1)
    <3> DEFINE a == Tail(all)
               b == SubSeq(s, m + 1, n + 1)
    <3>1. a \in Seq(S) /\ b \in Seq(S) /\ Len(a) = Len(b)
      BY <2>6, <2>7
    <3>2. \A i \in 1..Len(a) : a[i] = b[i]
      BY <2>5, <2>6, <2>7
    <3> HIDE DEF a, b
    <3>3. a = b
      BY <3>1, <3>2
    <3> QED
      BY <3>3 DEF a, b
  <2>9. AppendPlanningTail(t, s[n + 1]) = Tail(all)
    BY <1>1, <2>4 DEF AppendPlanningTail
  <2>10. AppendPlanningTail(t, s[n + 1]) = EndOf(s, n + 1)
    BY <2>1, <2>8, <2>9
  <2> HIDE DEF t
  <2>11. t \in Seq(S) /\ Len(t) <= TailMax
    BY <1>1, <2>3
  <2> QED
    BY <2>10, <2>11 DEF t
<1> QED
  BY <1>1, <1>2, <1>3

(* All that is kept of a whole output is short, too.                       *)
LEMMA EndIsShort ==
    ASSUME NEW S, NEW s \in Seq(S)
    PROVE  EndOf(s, Len(s)) \in Seq(S) /\ Len(EndOf(s, Len(s))) <= TailMax
<1>1. TailMax \in Nat /\ TailMax > 0
  BY RunnerAssumption
<1>2. CASE Len(s) > TailMax
  BY <1>1, <1>2 DEF EndOf
<1>3. CASE Len(s) <= TailMax
  BY <1>1, <1>3 DEF EndOf
<1> QED
  BY <1>1, <1>2, <1>3

(* A line the scanner reads is added to what it knows.                     *)
LEMMA DigestGrows ==
    ASSUME RunnerTypeOK, NEW n \in Nat, n < Len(script), Digested(n)
    PROVE  LET e == script[n + 1] IN
           /\ LastOf(KeepAt(SubSeq(script, 1, n + 1), ResultsAt)) = IF IsResult(e) THEN e ELSE text
           /\ KeepAt(SubSeq(script, 1, n + 1), BodiesAt) =
                IF e = "toolresult" THEN Append(logged, e) ELSE logged
           /\ EndOf(script, n + 1) = AppendPlanningTail(tail, e)
<1> DEFINE e == script[n + 1]
           p == SubSeq(script, 1, n)
           rs == KeepAt(p, ResultsAt)
<1>1. script \in Seq(LineKinds)
  BY DEF RunnerTypeOK
<1>2. /\ p \in Seq(LineKinds) /\ Len(p) = n /\ e \in LineKinds
      /\ SubSeq(script, 1, n + 1) = Append(p, e)
  BY <1>1, PrefixGrows
<1>3. n + 1 \in DOMAIN script
  BY <1>1
<1>4. (n + 1 \in ResultsAt <=> IsResult(e)) /\ (n + 1 \in BodiesAt <=> e = "toolresult")
  BY <1>3 DEF ResultsAt, BodiesAt
<1>5. /\ text = LastOf(rs) /\ logged = KeepAt(p, BodiesAt) /\ tail = EndOf(script, n)
  BY DEF Digested
<1> HIDE DEF p, e
<1>6. KeepAt(Append(p, e), BodiesAt) = IF e = "toolresult" THEN Append(logged, e) ELSE logged
  BY <1>2, <1>4, <1>5, KeepAtAppends
<1>7. KeepAt(Append(p, e), ResultsAt) = IF IsResult(e) THEN Append(rs, e) ELSE rs
  BY <1>2, <1>4, KeepAtAppends
<1>8. rs \in Seq(LineKinds)
  BY <1>2, KeepAtSelects
<1> HIDE DEF rs
<1>9. LastOf(Append(rs, e)) = e
  BY <1>2, <1>8 DEF LastOf
<1>10. EndOf(script, n + 1) = AppendPlanningTail(tail, e)
  BY <1>1, <1>5, TailGrows DEF e
<1> QED
  BY <1>2, <1>5, <1>6, <1>7, <1>9, <1>10 DEF e, p

-----------------------------------------------------------------------------
(* A runner starts with nothing written and nothing known.                 *)
LEMMA InitRunner == Init => RunnerIInv
<1> SUFFICES ASSUME Init PROVE RunnerIInv
  OBVIOUS
<1>1. /\ script \in Scripts \cup {<<>>} /\ written = 0 /\ child = "running" /\ pipe = <<>>
      /\ cancelled = FALSE /\ run = "scan" /\ text = NoText /\ tail = <<>> /\ logged = <<>>
  BY DEF Init, RunnerInit
<1>2. script \in Seq(LineKinds)
  <2>1. CASE script = <<>>
    BY <2>1
  <2>2. CASE script \in Scripts
    <3>1. PICK n \in 0..MaxWritten : script \in [1..n -> Kinds]
      BY <2>2 DEF Scripts
    <3>2. n \in Nat /\ Kinds \subseteq LineKinds
      BY RunnerAssumption
    <3> QED
      BY <3>1, <3>2
  <2> QED
    BY <1>1, <2>1, <2>2
<1>3. /\ Len(pipe) = 0 /\ Read = 0 /\ pipe \in Seq(LineKinds)
      /\ tail \in Seq(LineKinds) /\ Len(tail) = 0 /\ logged \in Seq(LineKinds)
  <2>1. pipe = <<>> /\ tail = <<>> /\ logged = <<>> /\ written = 0
    BY <1>1
  <2>2. Len(<<>>) = 0 /\ <<>> \in Seq(LineKinds)
    OBVIOUS
  <2>3. Len(pipe) = 0
    BY <2>1, <2>2
  <2>4. Read = 0
    <3>1. written = 0
      BY <1>1
    <3> QED
      BY <2>3, <3>1 DEF Read
  <2> QED
    BY <2>1, <2>2, <2>3, <2>4
<1>4. RunnerTypeOK
  <2>1. Capacity \in Nat /\ TailMax \in Nat
    BY RunnerAssumption
  <2>2. written \in 0..Len(script) /\ Len(pipe) <= Capacity /\ Len(tail) <= TailMax
    BY <1>1, <1>2, <1>3, <2>1
  <2> QED
    BY <1>1, <1>2, <1>3, <2>2 DEF RunnerTypeOK
<1>5. Digested(0)
  <2>1. SubSeq(script, 1, 0) = <<>> /\ EndOf(script, 0) = SubSeq(script, 1, 0)
    BY <1>2, PrefixEnds, RunnerAssumption DEF EndOf
  <2>2. LastOf(<<>>) = NoText
    BY DEF LastOf
  <2> QED
    BY <1>1, <2>1, <2>2, KeepAtNothing DEF Digested
<1>6. PipeInv /\ ReturnInv
  BY <1>1, <1>3 DEF PipeInv, ReturnInv
<1>7. ScanInv
  BY <1>1, <1>3, <1>5 DEF ScanInv
<1> QED
  BY <1>4, <1>6, <1>7 DEF RunnerIInv

(* Every step of the child, of os/exec and of the runner keeps it.         *)
LEMMA StepRunner == RunnerIInv /\ RunnerNext => RunnerIInv'
<1> SUFFICES ASSUME RunnerIInv, RunnerNext PROVE RunnerIInv'
  OBVIOUS
<1>0. /\ RunnerTypeOK /\ PipeInv /\ ScanInv /\ ReturnInv
      /\ script \in Seq(LineKinds) /\ pipe \in Seq(LineKinds) /\ written \in 0..Len(script)
      /\ Len(pipe) <= written /\ tail \in Seq(LineKinds) /\ logged \in Seq(LineKinds)
      /\ Len(pipe) <= Capacity /\ Len(tail) <= TailMax
  BY DEF RunnerIInv, RunnerTypeOK, PipeInv
<1>a. Capacity \in Nat /\ TailMax \in Nat /\ Read \in Nat /\ Read <= written
  BY <1>0, RunnerAssumption DEF Read
<1>b. ASSUME script' = script, UNCHANGED scanVars, NEW n
      PROVE  Digested(n) => /\ text' = LastOf(KeepAt(SubSeq(script', 1, n), ResultsAt'))
                            /\ logged' = KeepAt(SubSeq(script', 1, n), BodiesAt')
                            /\ tail' = EndOf(script', n)
  <2>1. ResultsAt' = ResultsAt /\ BodiesAt' = BodiesAt
    BY <1>b DEF ResultsAt, BodiesAt
  <2> QED
    BY <1>b, <2>1 DEF Digested, scanVars
<1>1. CASE Write
  <2>1. /\ child = "running" /\ written < Len(script) /\ Len(pipe) < Capacity
        /\ pipe' = Append(pipe, script[written + 1]) /\ written' = written + 1
        /\ script' = script /\ child' = child /\ cancelled' = cancelled /\ run' = run
        /\ UNCHANGED scanVars /\ text' = text /\ tail' = tail /\ logged' = logged
    BY <1>1 DEF Write, scanVars
  <2>2. script[written + 1] \in LineKinds
    BY <1>0, <2>1
  <2>3. /\ pipe' \in Seq(LineKinds) /\ Len(pipe') = Len(pipe) + 1
        /\ \A k \in 1..Len(pipe) : pipe'[k] = pipe[k]
        /\ pipe'[Len(pipe) + 1] = script[written + 1]
    BY <1>0, <2>1, <2>2
  <2>4. RunnerTypeOK'
    <3>1. written' \in 0..Len(script') /\ Len(pipe') <= Capacity
      BY <1>0, <1>a, <2>1, <2>3
    <3> QED
      BY <1>0, <2>1, <2>3, <3>1 DEF RunnerTypeOK
  <2>5. Read' = Read /\ Len(pipe') <= written'
    BY <1>0, <2>1, <2>3 DEF Read
  <2>6. \A k \in 1..Len(pipe') : pipe'[k] = script'[Read' + k]
    <3> SUFFICES ASSUME NEW k \in 1..Len(pipe') PROVE pipe'[k] = script'[Read' + k]
      OBVIOUS
    <3>1. CASE k \in 1..Len(pipe)
      BY <1>0, <2>1, <2>3, <2>5, <3>1 DEF PipeInv
    <3>2. CASE k = Len(pipe) + 1
      <4>1. Read + k = written + 1
        BY <1>0, <3>2 DEF Read
      <4> QED
        BY <2>1, <2>3, <2>5, <3>2, <4>1
    <3> QED
      BY <1>0, <2>3, <3>1, <3>2
  <2>7. ScanInv'
    <3>1. run = "scan" => Digested(Read)'
      BY <1>0, <1>b, <2>1, <2>5 DEF ScanInv, Digested
    <3>2. run # "scan" => text = NoText /\ tail = <<>> /\ (cancelled \/ Huge)
      BY <1>0, <2>1 DEF ScanInv
    <3>3. Huge' = Huge
      BY <2>1 DEF Huge
    <3> QED
      BY <2>1, <3>1, <3>2, <3>3 DEF ScanInv
  <2>8. ReturnInv'
    BY <1>0, <2>1 DEF ReturnInv
  <2> QED
    BY <2>4, <2>5, <2>6, <2>7, <2>8 DEF RunnerIInv, PipeInv
<1>c. ASSUME UNCHANGED <<script, written, pipe, scanVars>>, RunnerTypeOK',
             run' = run \/ (run = "wait" /\ run' # "scan"),
             child # "running" => child' # "running",
             cancelled => cancelled', ReturnInv'
      PROVE  RunnerIInv'
  <2>1. Read' = Read /\ Huge' = Huge /\ PipeInv'
    BY <1>0, <1>c DEF PipeInv, Read, Huge
  <2>2. /\ Digested(Read) => Digested(Read)'
        /\ Digested(written) => Digested(written)'
    BY <1>b, <1>c, <2>1 DEF Digested
  <2>3. text' = text /\ tail' = tail
    BY <1>c DEF scanVars
  <2>4. ScanInv'
    BY <1>0, <1>c, <2>1, <2>2, <2>3 DEF ScanInv
  <2> QED
    BY <1>c, <2>1, <2>4 DEF RunnerIInv
<1>2. CASE Exit \/ Kill
  <2>1. /\ child = "running" /\ child' \in {"ok", "failed", "killed"}
        /\ child' = "ok" => written = Len(script)
        /\ UNCHANGED <<script, written, pipe, cancelled, run, scanVars>>
    BY <1>2 DEF Exit, Kill
  <2>2. RunnerTypeOK' /\ ReturnInv'
    BY <1>0, <2>1 DEF RunnerTypeOK, ReturnInv, scanVars
  <2> QED
    BY <1>c, <2>1, <2>2
<1>3. CASE Cancel
  <2>1. RunnerTypeOK' /\ ReturnInv'
    BY <1>0, <1>3 DEF Cancel, RunnerTypeOK, ReturnInv, childVars, scanVars
  <2> QED
    BY <1>3, <1>c, <2>1 DEF Cancel, childVars
<1>4. CASE ScanLine
  <2> DEFINE e == Head(pipe)
  <2>1. /\ run = "scan" /\ pipe # <<>> /\ pipe' = Tail(pipe)
        /\ script' = script /\ written' = written /\ child' = child /\ cancelled' = cancelled
        /\ \/ /\ cancelled \/ e = "huge"
              /\ run' = "wait" /\ text' = NoText /\ tail' = <<>> /\ logged' = logged
           \/ /\ tail' = AppendPlanningTail(tail, e)
              /\ logged' = IF e = "toolresult" THEN Append(logged, e) ELSE logged
              /\ text' = IF IsResult(e) THEN e ELSE text
              /\ run' = "scan"
    BY <1>4 DEF ScanLine, childVars
  <2>2. /\ Len(pipe) \in Nat /\ Len(pipe) > 0 /\ e = pipe[1] /\ e \in LineKinds
        /\ pipe' \in Seq(LineKinds) /\ Len(pipe') = Len(pipe) - 1
        /\ \A k \in 1..Len(pipe') : pipe'[k] = pipe[k + 1]
    BY <1>0, <2>1
  <2>3. /\ Read' = Read + 1 /\ Read < Len(script) /\ e = script[Read + 1]
        /\ Len(pipe') <= written' /\ Len(pipe') <= Capacity
    BY <1>0, <1>a, <2>1, <2>2 DEF Read, PipeInv
  <2> HIDE DEF e
  <2>4. PipeInv'
    <3>1. \A k \in 1..Len(pipe') : k + 1 \in 1..Len(pipe) /\ Read + (k + 1) = Read' + k
      BY <1>a, <2>2, <2>3
    <3> QED
      BY <1>0, <2>1, <2>2, <2>3, <3>1 DEF PipeInv
  <2>5. ReturnInv'
    BY <1>0, <2>1 DEF ReturnInv
  <2>6. Digested(Read)
    BY <1>0, <2>1 DEF ScanInv
  <2>7. /\ LastOf(KeepAt(SubSeq(script, 1, Read + 1), ResultsAt)) = IF IsResult(e) THEN e ELSE text
        /\ KeepAt(SubSeq(script, 1, Read + 1), BodiesAt) =
             IF e = "toolresult" THEN Append(logged, e) ELSE logged
        /\ EndOf(script, Read + 1) = AppendPlanningTail(tail, e)
    BY <1>0, <1>a, <2>3, <2>6, DigestGrows
  <2>8. CASE /\ cancelled \/ e = "huge"
             /\ run' = "wait" /\ text' = NoText /\ tail' = <<>> /\ logged' = logged
    <3>1. e = "huge" => Huge
      <4>1. Read + 1 \in DOMAIN script
        BY <1>0, <1>a, <2>3
      <4> QED
        BY <2>3, <4>1 DEF Huge
    <3>2. Huge' = Huge
      BY <2>1 DEF Huge
    <3>3. ScanInv'
      BY <2>1, <2>8, <3>1, <3>2 DEF ScanInv
    <3>4. tail' \in Seq(LineKinds) /\ Len(tail') <= TailMax
      BY <1>a, <2>8
    <3>5. RunnerTypeOK'
      BY <1>0, <2>1, <2>2, <2>3, <2>8, <3>4 DEF RunnerTypeOK
    <3> QED
      BY <2>4, <2>5, <3>3, <3>5 DEF RunnerIInv
  <2>9. CASE /\ tail' = AppendPlanningTail(tail, e)
             /\ logged' = IF e = "toolresult" THEN Append(logged, e) ELSE logged
             /\ text' = IF IsResult(e) THEN e ELSE text
             /\ run' = "scan"
    <3>1. ResultsAt' = ResultsAt /\ BodiesAt' = BodiesAt
      BY <2>1 DEF ResultsAt, BodiesAt
    <3>2. Digested(Read)'
      BY <2>1, <2>3, <2>7, <2>9, <3>1 DEF Digested
    <3>3. ScanInv'
      BY <2>9, <3>2 DEF ScanInv
    <3>4. tail' \in Seq(LineKinds) /\ Len(tail') <= TailMax
      <4>1. CASE Read + 1 < Len(script)
        BY <1>0, <1>a, <2>7, <2>9, <4>1, TailGrows
      <4>2. CASE Read + 1 = Len(script)
        BY <1>0, <1>a, <2>7, <2>9, <4>2, EndIsShort
      <4> QED
        BY <1>0, <1>a, <2>3, <4>1, <4>2
    <3>5. logged' \in Seq(LineKinds) /\ text' \in Texts \cup {NoText}
      BY <1>0, <2>2, <2>9 DEF RunnerTypeOK, IsResult
    <3>6. RunnerTypeOK'
      BY <1>0, <2>1, <2>2, <2>3, <2>9, <3>4, <3>5 DEF RunnerTypeOK
    <3> QED
      BY <2>4, <2>5, <3>3, <3>6 DEF RunnerIInv
  <2> QED
    BY <2>1, <2>8, <2>9
<1>5. CASE EndOfOutput
  <2>1. /\ run = "scan" /\ pipe = <<>> /\ child # "running" /\ run' = "wait"
        /\ UNCHANGED <<script, written, child, pipe, cancelled, scanVars>>
        /\ text' = text /\ tail' = tail /\ logged' = logged
    BY <1>5 DEF EndOfOutput, childVars, scanVars
  <2>2. Len(pipe) = 0 /\ Read = written
    BY <1>0, <2>1 DEF Read
  <2>3. Digested(written)
    BY <1>0, <2>1, <2>2 DEF ScanInv
  <2>4. Digested(written)'
    BY <1>b, <2>1, <2>3 DEF Digested
  <2>5. ScanInv'
    BY <2>1, <2>4 DEF ScanInv
  <2>6. RunnerTypeOK' /\ ReturnInv'
    BY <1>0, <2>1 DEF RunnerTypeOK, ReturnInv
  <2>7. PipeInv'
    BY <1>0, <2>1 DEF PipeInv, Read
  <2> QED
    BY <2>5, <2>6, <2>7 DEF RunnerIInv
<1>6. CASE Wait
  <2>1. /\ run = "wait" /\ run' \in {"failed", "noresult", "answered"}
        /\ run' = "answered" => child = "ok" /\ text # NoText
        /\ UNCHANGED <<script, written, child, pipe, cancelled, scanVars>>
        /\ text' = text /\ tail' = tail /\ logged' = logged
    BY <1>6 DEF Wait, childVars, scanVars
  <2>2. RunnerTypeOK' /\ ReturnInv'
    BY <1>0, <2>1 DEF RunnerTypeOK, ReturnInv
  <2> QED
    BY <1>c, <2>1, <2>2
<1>7. CASE RunnerOver
  <2>1. UNCHANGED runnerVars
    BY <1>7 DEF RunnerOver
  <2>2. RunnerTypeOK' /\ ReturnInv'
    BY <1>0, <2>1 DEF RunnerTypeOK, ReturnInv, runnerVars, childVars, scanVars
  <2> QED
    BY <1>c, <2>1, <2>2 DEF runnerVars, childVars
<1> QED
  BY <1>1, <1>2, <1>3, <1>4, <1>5, <1>6, <1>7 DEF RunnerNext

-----------------------------------------------------------------------------
(* A part that rests keeps its invariant.                                  *)
LEMMA Resting ==
    /\ StartUpIInv /\ UNCHANGED startUpVars => StartUpIInv'
    /\ RunnerIInv /\ UNCHANGED runnerVars => RunnerIInv'
<1>1. ASSUME StartUpIInv, UNCHANGED startUpVars PROVE StartUpIInv'
  BY <1>1 DEF StartUpIInv, StartUpTypeOK, NothingYet, PathIsKnown, CredentialSoFar,
              ProducersSoFar, CountedAtTheEnd, ClosedAtTheEnd, Local,
              startUpVars, authVars, endVars
<1>2. ASSUME RunnerIInv, UNCHANGED runnerVars PROVE RunnerIInv'
  BY <1>2 DEF RunnerIInv, RunnerTypeOK, PipeInv, ScanInv, ReturnInv, Digested, Read,
              ResultsAt, BodiesAt, Huge, runnerVars, childVars, scanVars
<1> QED
  BY <1>1, <1>2

(* A step of one of them keeps both.                                       *)
LEMMA NextIInv == IInv /\ [Next]_vars => IInv'
<1> SUFFICES ASSUME IInv, [Next]_vars PROVE IInv'
  OBVIOUS
<1>0. StartUpIInv /\ RunnerIInv
  BY DEF IInv
<1>1. CASE part = "start_up" /\ StartUpNext /\ UNCHANGED <<part, runnerVars>>
  BY <1>0, <1>1, StepStartUp, Resting DEF IInv
<1>2. CASE OnlyRunner /\ RunnerNext
  BY <1>0, <1>2, StepRunner, Resting DEF IInv, OnlyRunner
<1>3. CASE UNCHANGED vars
  BY <1>0, <1>3, Resting DEF IInv, vars
<1> QED
  BY <1>1, <1>2, <1>3 DEF Next

(* The invariant of the two parts is one   of the specification.           *)
THEOREM Inductive == Spec => []IInv
<1>1. Init => IInv
  BY InitStartUp, InitRunner DEF IInv
<1> QED
  BY <1>1, NextIInv, PTL DEF Spec

(* StartUp.tla: whatever fails and whenever it is stopped, a Job past its  *)
(* arguments is counted exactly once, as what was delivered; the agent     *)
(* runs with one credential everywhere, the App's where one is set up;     *)
(* and what it needs to answer is open while it runs.                      *)
THEOREM JobsAreCountedOnce == Spec => []LifeCycleIsSound
<1>1. IInv => LifeCycleIsSound
  <2> SUFFICES ASSUME StartUpIInv PROVE LifeCycleIsSound
    BY DEF IInv
  <2> USE DEF StartUpIInv
  <2>1. StartUpTypeOK
    OBVIOUS
  <2>2. RunIsCountedOnce
    BY DEF RunIsCountedOnce, CountedAtTheEnd
  <2>3. CredentialIsOne
    BY DEF CredentialIsOne, CredentialSoFar
  <2>4. ProducersOutliveTheAgent
    BY DEF ProducersOutliveTheAgent, ProducersSoFar, ClosedAtTheEnd
  <2> QED
    BY <2>1, <2>2, <2>3, <2>4 DEF LifeCycleIsSound
<1> QED
  BY <1>1, Inductive, PTL

(* PlanningRunner.tla: an answer is the last result event of a child that  *)
(* wrote everything and ended well, with all of its tool results; a        *)
(* failure names the end of its output.                                    *)
THEOREM OutcomesAreTrue == Spec => []OutcomeIsTrue
<1>1. IInv => OutcomeIsTrue
  <2> SUFFICES ASSUME RunnerIInv PROVE OutcomeIsTrue
    BY DEF IInv
  <2>0. RunnerTypeOK /\ ScanInv /\ ReturnInv /\ script \in Seq(LineKinds)
    BY DEF RunnerIInv, RunnerTypeOK
  <2>1. run = "answered" => /\ child = "ok" /\ pipe = <<>> /\ Digested(written)
                            /\ written = Len(script)
    BY <2>0 DEF ScanInv, ReturnInv
  <2>2. run = "answered" => /\ text = LastOf(KeepAt(script, ResultsAt))
                            /\ logged = KeepAt(script, BodiesAt)
    BY <2>0, <2>1, PrefixEnds DEF Digested
  <2>3. AnswerIsComplete
    BY <2>1, <2>2 DEF AnswerIsComplete, LastResult, Results, ResultsAt, LastOf
  <2>4. AnswerIsLogged
    BY <2>2 DEF AnswerIsLogged, Bodies, BodiesAt
  <2>5. FailureNamesTheEnd
    <3>1. run = "failed" /\ ~cancelled /\ ~Huge => Digested(written)
      BY <2>0 DEF ScanInv
    <3> QED
      BY <3>1 DEF FailureNamesTheEnd, Digested, EndOf
  <2> QED
    BY <2>0, <2>3, <2>4, <2>5 DEF OutcomeIsTrue
<1> QED
  BY <1>1, Inductive, PTL
=============================================================================
