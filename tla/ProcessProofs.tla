--------------------------- MODULE ProcessProofs ----------------------------
(***************************************************************************)
(* The process and its health checker.  For any number of backends and any *)
(* rise and fall: a round records one result for each backend, and the     *)
(* health it sets is what the last full streak of results says.  For every *)
(* command line: the threads of main find the components they use, the     *)
(* health checker's counters apart, and what main leaves behind when it    *)
(* returns is nothing.                                                     *)
(***************************************************************************)
EXTENDS Process, HealthChecker, TLAPS

-----------------------------------------------------------------------------
(* The health checker *)

LEMMA IdIsInterval ==
  NBackends \in Nat /\ Id = 0 .. NBackends - 1 /\ 0 \in Id /\ \A b \in Id : b \in Int
BY NBackendsAssumption DEF Id

-----------------------------------------------------------------------------
(* Rounds *)

SockState == {"none", "pending", "done", "closed"}

RoundTypes ==
  /\ pc \in {"top", "connect", "poll", "batch", "finish", "wait", "exited"}
  /\ i \in Nat
  /\ sock \in [Id -> SockState]
  /\ recorded \in [Id -> Nat]

(* What a probe in this state has recorded. *)
ResultsOf(state, stopped) ==
  IF state = "done" THEN 1 ELSE IF state = "closed" /\ ~stopped THEN 1 ELSE 0

(* A probe has its result exactly when it is done, or closed in a round    *)
(* that no stop aborted; the other conjuncts say how far the loops of a    *)
(* round are.                                                              *)
RoundInv ==
  /\ RoundTypes
  /\ \A b \in Id : recorded[b] = ResultsOf(sock[b], aborted)
  /\ pc = "connect" => i \in Id /\ ~aborted /\ \A b \in Id : sock[b] = "none" <=> b >= i
  /\ pc \in {"connect", "poll", "batch"} => \A b \in Id : sock[b] # "closed"
  /\ pc \in {"poll", "batch", "finish"} => \A b \in Id : sock[b] # "none"
  /\ pc = "finish" => \A b \in Id : b < i => sock[b] \in {"done", "closed"}
  /\ pc = "wait" => \A b \in Id : sock[b] \in {"done", "closed"}
  /\ \A b \in Id : <<"sock", b>> \in batch => sock[b] = "pending"
  /\ pc # "batch" => batch = {}

LEMMA RoundImplies == RoundInv => OneResultPerRound
<1> SUFFICES ASSUME RoundInv PROVE OneResultPerRound
  OBVIOUS
<1>1. ASSUME NEW b \in Id
      PROVE  recorded[b] = CASE sock[b] = "done"   -> 1
                             [] sock[b] = "closed" -> IF aborted THEN 0 ELSE 1
                             [] OTHER              -> 0
  BY DEF RoundInv, ResultsOf
<1>2. pc = "wait" /\ ~aborted => \A b \in Id : recorded[b] = 1
  BY DEF RoundInv, ResultsOf
<1> QED
  BY Zenon, <1>1, <1>2 DEF OneResultPerRound

LEMMA InitRound == hcInit => RoundInv
BY IdIsInterval DEF hcInit, RoundInv, RoundTypes, ResultsOf, SockState

(* A probe that has no result gets one and is done, or closed in a round   *)
(* that is not aborted.                                                    *)
LEMMA ProbeDone ==
  ASSUME RoundInv, NEW b \in Id, sock[b] \in {"none", "pending"},
         NEW state \in {"done", "closed"}, state = "closed" => ~aborted,
         sock' = [sock EXCEPT ![b] = state],
         recorded' = [recorded EXCEPT ![b] = @ + 1], aborted' = aborted
  PROVE  /\ sock' \in [Id -> SockState] /\ recorded' \in [Id -> Nat]
         /\ \A c \in Id : recorded'[c] = ResultsOf(sock'[c], aborted')
         /\ sock'[b] = state /\ \A c \in Id \ {b} : sock'[c] = sock[c]
<1>1. recorded[b] = 0
  BY DEF RoundInv, ResultsOf
<1>2. /\ recorded' \in [Id -> Nat] /\ recorded'[b] = 1
      /\ \A c \in Id \ {b} : recorded'[c] = recorded[c]
  BY <1>1 DEF RoundInv, RoundTypes
<1>3. /\ sock' \in [Id -> SockState] /\ sock'[b] = state
      /\ \A c \in Id \ {b} : sock'[c] = sock[c]
  BY DEF RoundInv, RoundTypes, SockState
<1>4. ResultsOf(state, aborted) = 1
  BY DEF ResultsOf
<1>5. \A c \in Id \ {b} : recorded[c] = ResultsOf(sock[c], aborted)
  BY DEF RoundInv
<1> QED
  BY Zenon, <1>2, <1>3, <1>4, <1>5

LEMMA NextRound ==
  ASSUME RoundInv, [hcNext]_hcvars
  PROVE  RoundInv'
<1>1. CASE StartRound
  BY <1>1, IdIsInterval DEF StartRound, RoundInv, RoundTypes, ResultsOf, SockState, envVars
<1>2. CASE Connect
  <2>1. i \in Id /\ i' = i + 1 /\ pc' = (IF i + 1 \in Id THEN "connect" ELSE "poll")
    BY <1>2 DEF Connect, Connected, RoundInv
  <2>2. /\ sock' = [sock EXCEPT ![i] = "pending"]
        /\ UNCHANGED <<recorded, aborted, batch>>
    BY <1>2 DEF Connect, health
  <2>3. /\ \A b \in Id : sock[b] = "none" <=> b >= i
        /\ \A b \in Id : b >= i + 1 <=> b >= i /\ b # i
        /\ i + 1 \notin Id => \A b \in Id : ~(b >= i + 1)
        /\ i + 1 \in Nat /\ ~aborted /\ batch = {}
    BY <1>2, <2>1, IdIsInterval DEF Connect, RoundInv
  <2>4. /\ sock' \in [Id -> SockState]
        /\ sock'[i] = "pending" /\ \A b \in Id \ {i} : sock'[b] = sock[b]
    BY <2>1, <2>2 DEF RoundInv, RoundTypes, SockState
  <2>5. \A b \in Id : sock'[b] = "none" <=> b >= i + 1
    BY Zenon, <2>1, <2>3, <2>4
  <2>6. \A b \in Id : recorded'[b] = ResultsOf(sock'[b], aborted')
    <3>1. sock[i] = "none"
      BY <2>1, <2>3, IdIsInterval
    <3>2. ResultsOf("none", aborted) = ResultsOf("pending", aborted)
      BY DEF ResultsOf
    <3> QED
      BY <2>1, <2>2, <2>4, <3>1, <3>2 DEF RoundInv
  <2>7. \A b \in Id : sock'[b] # "closed"
    BY <1>2, <2>4 DEF Connect, RoundInv
  <2> QED
    BY <2>1, <2>2, <2>3, <2>4, <2>5, <2>6, <2>7 DEF RoundInv, RoundTypes
<1>3. CASE ConnectFails
  <2>1. /\ i \in Id /\ i' = i + 1 /\ pc' = (IF i + 1 \in Id THEN "connect" ELSE "poll")
        /\ ~aborted /\ \A b \in Id : sock[b] = "none" <=> b >= i
    BY <1>3 DEF ConnectFails, Connected, RoundInv
  <2>2. /\ sock' = [sock EXCEPT ![i] = "done"]
        /\ UNCHANGED <<aborted, batch>> /\ batch = {}
    BY <1>3 DEF ConnectFails, RoundInv
  <2>3. recorded' = [recorded EXCEPT ![i] = @ + 1]
    BY <1>3 DEF ConnectFails, record_result, Count
  <2>4. sock[i] = "none" /\ \A b \in Id : sock[b] # "closed"
    BY <1>3, <2>1, IdIsInterval DEF ConnectFails, RoundInv
  <2>5. /\ sock' \in [Id -> SockState] /\ recorded' \in [Id -> Nat]
        /\ \A c \in Id : recorded'[c] = ResultsOf(sock'[c], aborted')
        /\ sock'[i] = "done" /\ \A c \in Id \ {i} : sock'[c] = sock[c]
    BY Zenon, <2>1, <2>2, <2>3, <2>4, ProbeDone
  <2>6. RoundTypes'
    BY <2>1, <2>5, IdIsInterval DEF RoundTypes
  <2>7. \A b \in Id : sock'[b] = "none" <=> b >= i + 1
    <3>1. ASSUME NEW b \in Id PROVE b >= i + 1 <=> b >= i /\ b # i
      BY <2>1, IdIsInterval
    <3> QED
      BY Zenon, <2>1, <2>5, <3>1
  <2>8. pc' = "poll" => \A b \in Id : sock'[b] # "none"
    BY <2>1, <2>7, IdIsInterval
  <2>9. \A b \in Id : sock'[b] # "closed"
    BY <2>4, <2>5
  <2> QED
    BY <2>1, <2>2, <2>5, <2>6, <2>7, <2>8, <2>9 DEF RoundInv
<1>4. CASE Poll
  <2>1. \A b \in Id : <<"sock", b>> \in Ready => sock[b] = "pending"
    BY DEF Ready, Pending
  <2> QED
    BY <1>4, <2>1 DEF Poll, RoundInv, RoundTypes, health
<1>5. CASE PollEnds
  BY <1>5, IdIsInterval DEF PollEnds, RoundInv, RoundTypes, health
<1>6. ASSUME NEW b \in Id, HandleAnswer(b) PROVE RoundInv'
  <2>1. /\ sock' = [sock EXCEPT ![b] = "done"] /\ batch' = batch \ {<<"sock", b>>}
        /\ UNCHANGED <<pc, i, aborted>> /\ pc = "batch" /\ <<"sock", b>> \in batch
    BY <1>6 DEF HandleAnswer
  <2>2. recorded' = [recorded EXCEPT ![b] = @ + 1]
    BY <1>6 DEF HandleAnswer, record_result, Count
  <2>3. sock[b] = "pending"
    BY <2>1 DEF RoundInv
  <2>4. /\ sock' \in [Id -> SockState] /\ recorded' \in [Id -> Nat]
        /\ \A c \in Id : recorded'[c] = ResultsOf(sock'[c], aborted')
        /\ sock'[b] = "done" /\ \A c \in Id \ {b} : sock'[c] = sock[c]
    BY Zenon, <2>1, <2>2, <2>3, ProbeDone
  <2>5. \A c \in Id : <<"sock", c>> \in batch' => c # b /\ sock[c] = "pending"
    BY <2>1 DEF RoundInv
  <2>6. RoundTypes'
    BY <2>1, <2>4 DEF RoundInv, RoundTypes
  <2>7. \A c \in Id : sock'[c] # "none" /\ sock'[c] # "closed"
    BY <2>1, <2>4 DEF RoundInv
  <2> QED
    BY <2>1, <2>4, <2>5, <2>6, <2>7 DEF RoundInv
<1>7. CASE HandleAdmin
  BY <1>7 DEF HandleAdmin, RoundInv, RoundTypes, health
<1>8. CASE HandleWake
  <2>1. \A b \in Id : ResultsOf(sock[b], TRUE) = ResultsOf(sock[b], aborted)
    BY <1>8 DEF HandleWake, RoundInv, ResultsOf
  <2> QED
    BY ZenonT(60), <1>8, <2>1 DEF HandleWake, RoundInv, RoundTypes, health
<1>9. CASE BatchDone
  BY <1>9 DEF BatchDone, RoundInv, RoundTypes, health
<1>10. CASE Finish
  <2>1. /\ sock' = [sock EXCEPT ![i] = IF @ = "pending" THEN "closed" ELSE @]
        /\ i' = i + 1 /\ i \in Id /\ pc = "finish" /\ UNCHANGED <<pc, aborted, batch>>
    BY <1>10 DEF Finish
  <2>2. /\ sock' \in [Id -> SockState] /\ \A c \in Id \ {i} : sock'[c] = sock[c]
        /\ sock'[i] = IF sock[i] = "pending" THEN "closed" ELSE sock[i]
    BY <2>1 DEF RoundInv, RoundTypes, SockState
  <2>3. sock[i] \in {"pending", "done", "closed"}
    BY <2>1 DEF RoundInv, RoundTypes, SockState
  <2>4. /\ recorded' \in [Id -> Nat]
        /\ \A c \in Id : recorded'[c] = ResultsOf(sock'[c], aborted')
    <3>1. CASE sock[i] = "pending" /\ ~aborted
      <4>1. recorded' = [recorded EXCEPT ![i] = @ + 1]
        BY <1>10, <3>1 DEF Finish, record_result, Count
      <4>2. sock' = [sock EXCEPT ![i] = "closed"]
        BY <2>1, <3>1
      <4> QED
        BY Zenon, <2>1, <3>1, <4>1, <4>2, ProbeDone
    <3>2. CASE ~(sock[i] = "pending" /\ ~aborted)
      <4>1. recorded' = recorded
        BY Zenon, <1>10, <3>2 DEF Finish, health
      <4>2. ResultsOf(sock'[i], aborted) = ResultsOf(sock[i], aborted)
        BY <2>2, <2>3, <3>2 DEF ResultsOf
      <4> QED
        BY <2>1, <2>2, <4>1, <4>2 DEF RoundInv, RoundTypes
    <3> QED
      BY <3>1, <3>2
  <2>5. \A b \in Id : sock'[b] # "none" /\ (b < i + 1 => sock'[b] \in {"done", "closed"})
    <3>1. ASSUME NEW b \in Id, b # i, b < i + 1 PROVE b < i
      BY <2>1, <3>1, IdIsInterval
    <3> QED
      BY <2>1, <2>2, <2>3, <3>1 DEF RoundInv
  <2>6. RoundTypes'
    BY <2>1, <2>2, <2>4, IdIsInterval DEF RoundInv, RoundTypes
  <2> QED
    BY <2>1, <2>2, <2>4, <2>5, <2>6 DEF RoundInv
<1>11. CASE RoundDone
  <2>1. \A b \in Id : b < i
    BY <1>11, IdIsInterval DEF RoundDone, RoundInv, RoundTypes
  <2> QED
    BY <1>11, <2>1 DEF RoundDone, RoundInv, RoundTypes, health
<1>12. CASE IntervalEnds \/ WaitAdmin \/ WaitWake \/ Exit
  BY <1>12 DEF IntervalEnds, WaitAdmin, WaitWake, Exit, RoundInv, RoundTypes, health
<1>13. ASSUME UNCHANGED <<pc, i, sock, recorded, aborted, batch>> PROVE RoundInv'
  BY <1>13 DEF RoundInv, RoundTypes
<1>14. ASSUME \/ RequestStop \/ WriteWake \/ Deadline \/ Joined \/ UNCHANGED hcvars
              \/ \E b \in Id : Answer(b)
              \/ \E line \in Command : WriteFifo(line)
       PROVE  UNCHANGED <<pc, i, sock, recorded, aborted, batch>>
  BY <1>14 DEF RequestStop, WriteWake, Deadline, Joined, Answer, WriteFifo, hcvars, health
<1> QED
  BY <1>1, <1>2, <1>3, <1>4, <1>5, <1>6, <1>7, <1>8, <1>9, <1>10, <1>11, <1>12, <1>13, <1>14
     DEF hcNext, hcThread

(* A round of run_probe_round records one result for each backend,         *)
(* whichever of answer, failed connect and deadline comes first, and one   *)
(* that a stop aborted none for the probes it abandons.                    *)
THEOREM OneResult == hcSpec => []OneResultPerRound
  BY InitRound, NextRound, RoundImplies, PTL DEF hcSpec

-----------------------------------------------------------------------------
(* Streaks *)

StreakTypes ==
  /\ ok \in [Id -> Nat] /\ fail \in [Id -> Nat]
  /\ healthy \in [Id -> BOOLEAN]
  /\ streak \in [Id -> [ok : BOOLEAN, n : Nat, full : BOOLEAN]]

(* The counter of the kind of result that came last is the length of the   *)
(* streak up to its threshold, and the other one is zero; a streak that is *)
(* full now has been heard.                                                *)
StreakInv ==
  /\ StreakTypes
  /\ \A b \in Id : healthy[b] = streak[b].full
  /\ \A b \in Id : streak[b].n <= Cap
  /\ \A b \in Id : streak[b].ok =>
       /\ fail[b] = 0
       /\ ok[b] = IF streak[b].n < Rise THEN streak[b].n ELSE Rise
       /\ streak[b].n >= Rise => healthy[b]
  /\ \A b \in Id : ~streak[b].ok =>
       /\ ok[b] = 0
       /\ fail[b] = IF streak[b].n < Fall THEN streak[b].n ELSE Fall
       /\ streak[b].n >= Fall => ~healthy[b]

LEMMA CapBounds == Cap \in Nat /\ Rise <= Cap /\ Fall <= Cap
BY ThresholdAssumption DEF Cap

LEMMA StreakImplies == StreakInv => HealthIsLastStreak
BY DEF StreakInv, HealthIsLastStreak

LEMMA InitStreak == hcInit => StreakInv
<1> SUFFICES ASSUME hcInit PROVE StreakInv
  OBVIOUS
<1>1. StreakTypes
  BY DEF hcInit, StreakTypes
<1>2. \A b \in Id : /\ streak[b].n = 0 /\ streak[b].ok = TRUE /\ ok[b] = 0 /\ fail[b] = 0
                   /\ healthy[b] = streak[b].full
  BY ZenonT(60) DEF hcInit
<1> QED
  BY <1>1, <1>2, CapBounds, ThresholdAssumption DEF StreakInv

(* What a counter and the length of a streak become. *)
LEMMA Lengthened ==
  ASSUME NEW limit \in Nat \ {0}, limit <= Cap, NEW n \in Nat, n <= Cap,
         NEW count, count = IF n < limit THEN n ELSE limit
  PROVE  LET m == IF n < Cap THEN n + 1 ELSE n
             k == IF count < limit THEN count + 1 ELSE count
         IN /\ m <= Cap /\ m \in Nat
            /\ k = IF m < limit THEN m ELSE limit
            /\ m >= limit => n >= limit \/ (count < limit /\ count + 1 = limit)
            /\ count < limit /\ count + 1 = limit => m >= limit
BY CapBounds

LEMMA SuccessOf ==
  ASSUME StreakInv, NEW b \in Id,
         fail' = [fail EXCEPT ![b] = 0],
         ok' = [ok EXCEPT ![b] = IF @ < Rise THEN @ + 1 ELSE @],
         healthy' = [healthy EXCEPT ![b] = @ \/ (ok[b] < Rise /\ ok[b] + 1 = Rise)],
         NEW len \in Nat, NEW full \in BOOLEAN,
         streak' = [streak EXCEPT ![b] = [ok |-> TRUE, n |-> len, full |-> full]],
         full = IF len >= Rise THEN TRUE ELSE streak[b].full,
         streak[b].ok => len = IF streak[b].n < Cap THEN streak[b].n + 1 ELSE streak[b].n,
         ~streak[b].ok => len = 1
  PROVE  StreakInv'
<1>1. \A c \in Id \ {b} : /\ fail'[c] = fail[c] /\ ok'[c] = ok[c]
                         /\ healthy'[c] = healthy[c] /\ streak'[c] = streak[c]
  BY DEF StreakInv, StreakTypes
<1>2. fail'[b] = 0 /\ ok'[b] = (IF ok[b] < Rise THEN ok[b] + 1 ELSE ok[b])
  BY DEF StreakInv, StreakTypes
<1>3. healthy'[b] = (healthy[b] \/ (ok[b] < Rise /\ ok[b] + 1 = Rise))
  BY DEF StreakInv, StreakTypes
<1>4. streak'[b].ok = TRUE /\ streak'[b].n = len /\ streak'[b].full = full
  BY DEF StreakInv, StreakTypes
<1>5. StreakTypes'
  <2>1. ok' \in [Id -> Nat] /\ fail' \in [Id -> Nat]
    BY ThresholdAssumption DEF StreakInv, StreakTypes
  <2>2. healthy' \in [Id -> BOOLEAN]
    BY DEF StreakInv, StreakTypes
  <2>3. [ok |-> TRUE, n |-> len, full |-> full] \in [ok : BOOLEAN, n : Nat, full : BOOLEAN]
    BY Zenon
  <2>4. streak' \in [Id -> [ok : BOOLEAN, n : Nat, full : BOOLEAN]]
    BY Zenon, <2>3 DEF StreakInv, StreakTypes
  <2> QED
    BY Zenon, <2>1, <2>2, <2>4 DEF StreakTypes
<1>6. /\ len <= Cap
      /\ ok'[b] = IF len < Rise THEN len ELSE Rise
      /\ len >= Rise => healthy'[b]
      /\ len < Rise => healthy'[b] = healthy[b]
  <2>0. healthy[b] \in BOOLEAN
    BY Zenon DEF StreakInv, StreakTypes
  <2>1. CASE streak[b].ok
    <3>1. /\ ok[b] = IF streak[b].n < Rise THEN streak[b].n ELSE Rise
          /\ streak[b].n >= Rise => healthy[b]
      BY <2>1 DEF StreakInv
    <3>2. streak[b].n \in Nat /\ streak[b].n <= Cap
      BY DEF StreakInv, StreakTypes
    <3>3. /\ len <= Cap
          /\ ok'[b] = IF len < Rise THEN len ELSE Rise
          /\ len >= Rise => streak[b].n >= Rise \/ (ok[b] < Rise /\ ok[b] + 1 = Rise)
          /\ len < Rise => ~(ok[b] < Rise /\ ok[b] + 1 = Rise)
      BY <1>2, <2>1, <3>1, <3>2, CapBounds, ThresholdAssumption, Lengthened
    <3> QED
      BY ZenonT(60), <1>3, <2>0, <3>1, <3>3
  <2>2. CASE ~streak[b].ok
    <3>1. ok[b] = 0 /\ len = 1
      BY <2>2 DEF StreakInv
    <3>2. /\ len <= Cap
          /\ ok'[b] = IF len < Rise THEN len ELSE Rise
          /\ len >= Rise => ok[b] < Rise /\ ok[b] + 1 = Rise
          /\ len < Rise => ~(ok[b] < Rise /\ ok[b] + 1 = Rise)
      BY SMTT(60), <1>2, <3>1, CapBounds, ThresholdAssumption
    <3> QED
      BY ZenonT(60), <1>3, <2>0, <3>2
  <2> QED
    BY <2>1, <2>2
<1> QED
  <2>1. \A c \in Id : streak'[c].n <= Cap
    BY <1>1, <1>4, <1>6 DEF StreakInv
  <2>2. ASSUME NEW c \in Id, streak'[c].ok
        PROVE  /\ fail'[c] = 0
               /\ ok'[c] = IF streak'[c].n < Rise THEN streak'[c].n ELSE Rise
               /\ streak'[c].n >= Rise => healthy'[c]
    <3>1. CASE c = b
      BY <1>2, <1>4, <1>6, <3>1
    <3>2. CASE c # b
      BY <1>1, <2>2, <3>2 DEF StreakInv
    <3> QED
      BY <3>1, <3>2
  <2>3. ASSUME NEW c \in Id, ~streak'[c].ok
        PROVE  /\ ok'[c] = 0
               /\ fail'[c] = IF streak'[c].n < Fall THEN streak'[c].n ELSE Fall
               /\ streak'[c].n >= Fall => ~healthy'[c]
    BY <1>1, <1>4, <2>3 DEF StreakInv
  <2>4. healthy'[b] = full
    <3>1. healthy[b] = streak[b].full
      BY DEF StreakInv
    <3>2. healthy'[b] \in BOOLEAN
      BY <1>5 DEF StreakTypes
    <3>3. len >= Rise \/ len < Rise
      BY ThresholdAssumption
    <3>4. len < Rise => ~(len >= Rise)
      BY ThresholdAssumption
    <3> QED
      BY ZenonT(60), <1>6, <3>1, <3>2, <3>3, <3>4
  <2>5. \A c \in Id : healthy'[c] = streak'[c].full
    <3>1. \A c \in Id \ {b} : healthy[c] = streak[c].full
      BY DEF StreakInv
    <3> QED
      BY ZenonT(60), <1>1, <1>4, <2>4, <3>1
  <2> QED
    BY ZenonT(60), <1>5, <2>1, <2>2, <2>3, <2>5 DEF StreakInv

LEMMA FailureOf ==
  ASSUME StreakInv, NEW b \in Id,
         ok' = [ok EXCEPT ![b] = 0],
         fail' = [fail EXCEPT ![b] = IF @ < Fall THEN @ + 1 ELSE @],
         healthy' = [healthy EXCEPT ![b] = @ /\ ~(fail[b] < Fall /\ fail[b] + 1 = Fall)],
         NEW len \in Nat, NEW full \in BOOLEAN,
         streak' = [streak EXCEPT ![b] = [ok |-> FALSE, n |-> len, full |-> full]],
         full = IF len >= Fall THEN FALSE ELSE streak[b].full,
         ~streak[b].ok => len = IF streak[b].n < Cap THEN streak[b].n + 1 ELSE streak[b].n,
         streak[b].ok => len = 1
  PROVE  StreakInv'
<1>1. \A c \in Id \ {b} : /\ fail'[c] = fail[c] /\ ok'[c] = ok[c]
                         /\ healthy'[c] = healthy[c] /\ streak'[c] = streak[c]
  BY DEF StreakInv, StreakTypes
<1>2. ok'[b] = 0 /\ fail'[b] = (IF fail[b] < Fall THEN fail[b] + 1 ELSE fail[b])
  BY DEF StreakInv, StreakTypes
<1>3. healthy'[b] = (healthy[b] /\ ~(fail[b] < Fall /\ fail[b] + 1 = Fall))
  BY DEF StreakInv, StreakTypes
<1>4. streak'[b].ok = FALSE /\ streak'[b].n = len /\ streak'[b].full = full
  BY DEF StreakInv, StreakTypes
<1>5. StreakTypes'
  <2>1. ok' \in [Id -> Nat] /\ fail' \in [Id -> Nat]
    BY ThresholdAssumption DEF StreakInv, StreakTypes
  <2>2. healthy' \in [Id -> BOOLEAN]
    BY DEF StreakInv, StreakTypes
  <2>3. [ok |-> FALSE, n |-> len, full |-> full] \in [ok : BOOLEAN, n : Nat, full : BOOLEAN]
    BY Zenon
  <2>4. streak' \in [Id -> [ok : BOOLEAN, n : Nat, full : BOOLEAN]]
    BY Zenon, <2>3 DEF StreakInv, StreakTypes
  <2> QED
    BY Zenon, <2>1, <2>2, <2>4 DEF StreakTypes
<1>6. /\ len <= Cap
      /\ fail'[b] = IF len < Fall THEN len ELSE Fall
      /\ len >= Fall => ~healthy'[b]
      /\ len < Fall => healthy'[b] = healthy[b]
  <2>0. healthy[b] \in BOOLEAN
    BY Zenon DEF StreakInv, StreakTypes
  <2>1. CASE ~streak[b].ok
    <3>1. /\ fail[b] = IF streak[b].n < Fall THEN streak[b].n ELSE Fall
          /\ streak[b].n >= Fall => ~healthy[b]
      BY <2>1 DEF StreakInv
    <3>2. streak[b].n \in Nat /\ streak[b].n <= Cap
      BY DEF StreakInv, StreakTypes
    <3>3. /\ len <= Cap
          /\ fail'[b] = IF len < Fall THEN len ELSE Fall
          /\ len >= Fall => streak[b].n >= Fall \/ (fail[b] < Fall /\ fail[b] + 1 = Fall)
          /\ len < Fall => ~(fail[b] < Fall /\ fail[b] + 1 = Fall)
      BY <1>2, <2>1, <3>1, <3>2, CapBounds, ThresholdAssumption, Lengthened
    <3> QED
      BY ZenonT(60), <1>3, <2>0, <3>1, <3>3
  <2>2. CASE streak[b].ok
    <3>1. fail[b] = 0 /\ len = 1
      BY <2>2 DEF StreakInv
    <3>2. /\ len <= Cap
          /\ fail'[b] = IF len < Fall THEN len ELSE Fall
          /\ len >= Fall => fail[b] < Fall /\ fail[b] + 1 = Fall
          /\ len < Fall => ~(fail[b] < Fall /\ fail[b] + 1 = Fall)
      BY <1>2, <3>1, CapBounds, ThresholdAssumption
    <3> QED
      BY ZenonT(60), <1>3, <2>0, <3>2
  <2> QED
    BY <2>1, <2>2
<1> QED
  <2>1. \A c \in Id : streak'[c].n <= Cap
    BY <1>1, <1>4, <1>6 DEF StreakInv
  <2>2. ASSUME NEW c \in Id, ~streak'[c].ok
        PROVE  /\ ok'[c] = 0
               /\ fail'[c] = IF streak'[c].n < Fall THEN streak'[c].n ELSE Fall
               /\ streak'[c].n >= Fall => ~healthy'[c]
    <3>1. CASE c = b
      BY SMTT(60), <1>2, <1>4, <1>6, <3>1
    <3>2. CASE c # b
      BY <1>1, <2>2, <3>2 DEF StreakInv
    <3> QED
      BY <3>1, <3>2
  <2>3. ASSUME NEW c \in Id, streak'[c].ok
        PROVE  /\ fail'[c] = 0
               /\ ok'[c] = IF streak'[c].n < Rise THEN streak'[c].n ELSE Rise
               /\ streak'[c].n >= Rise => healthy'[c]
    BY <1>1, <1>4, <2>3 DEF StreakInv
  <2>4. healthy'[b] = full
    <3>1. healthy[b] = streak[b].full
      BY DEF StreakInv
    <3>2. healthy'[b] \in BOOLEAN
      BY <1>5 DEF StreakTypes
    <3>3. len >= Fall \/ len < Fall
      BY ThresholdAssumption
    <3>4. len < Fall => ~(len >= Fall)
      BY ThresholdAssumption
    <3> QED
      BY ZenonT(60), <1>6, <3>1, <3>2, <3>3, <3>4
  <2>5. \A c \in Id : healthy'[c] = streak'[c].full
    <3>1. \A c \in Id \ {b} : healthy[c] = streak[c].full
      BY DEF StreakInv
    <3> QED
      BY ZenonT(60), <1>1, <1>4, <2>4, <3>1
  <2> QED
    BY ZenonT(60), <1>5, <2>1, <2>2, <2>3, <2>5 DEF StreakInv

LEMMA RecordedOk ==
  ASSUME StreakInv, NEW b \in Id, NEW result, result = TRUE, record_result(b, result)
  PROVE  StreakInv'
<1>1. /\ fail' = [fail EXCEPT ![b] = 0]
      /\ ok' = [ok EXCEPT ![b] = IF @ < Rise THEN @ + 1 ELSE @]
      /\ healthy' = [healthy EXCEPT ![b] = @ \/ (ok[b] < Rise /\ ok[b] + 1 = Rise)]
  BY DEF record_result
<1> DEFINE len == Longer(streak[b], TRUE)
           full == IF Full(TRUE, len) THEN TRUE ELSE streak[b].full
<1>2. streak' = [streak EXCEPT ![b] = [ok |-> TRUE, n |-> len, full |-> full]]
  BY Zenon DEF record_result, Count
<1>3. streak[b].ok \in BOOLEAN /\ streak[b].n \in Nat /\ streak[b].full \in BOOLEAN
  BY Zenon DEF StreakInv, StreakTypes
<1>4. streak[b].ok => len = IF streak[b].n < Cap THEN streak[b].n + 1 ELSE streak[b].n
  BY Zenon, <1>3 DEF Longer
<1>5. ~streak[b].ok => len = 1
  BY Zenon, <1>3 DEF Longer
<1>6. full = IF len >= Rise THEN TRUE ELSE streak[b].full
  BY Zenon DEF Full
<1> HIDE DEF full, len
<1>7. len \in Nat
  <2>1. streak[b].n + 1 \in Nat /\ 1 \in Nat
    BY <1>3
  <2> QED
    BY Zenon, <1>3, <1>4, <1>5, <2>1
<1>8. full \in BOOLEAN
  BY Zenon, <1>3, <1>6
<1> QED
  BY Zenon, <1>1, <1>2, <1>4, <1>5, <1>6, <1>7, <1>8, SuccessOf

LEMMA RecordedFailure ==
  ASSUME StreakInv, NEW b \in Id, NEW result, result = FALSE, record_result(b, result)
  PROVE  StreakInv'
<1>1. /\ ok' = [ok EXCEPT ![b] = 0]
      /\ fail' = [fail EXCEPT ![b] = IF @ < Fall THEN @ + 1 ELSE @]
      /\ healthy' = [healthy EXCEPT ![b] = @ /\ ~(fail[b] < Fall /\ fail[b] + 1 = Fall)]
  BY DEF record_result
<1> DEFINE len == Longer(streak[b], FALSE)
           full == IF Full(FALSE, len) THEN FALSE ELSE streak[b].full
<1>2. streak' = [streak EXCEPT ![b] = [ok |-> FALSE, n |-> len, full |-> full]]
  BY Zenon DEF record_result, Count
<1>3. streak[b].ok \in BOOLEAN /\ streak[b].n \in Nat /\ streak[b].full \in BOOLEAN
  BY Zenon DEF StreakInv, StreakTypes
<1>4. ~streak[b].ok => len = IF streak[b].n < Cap THEN streak[b].n + 1 ELSE streak[b].n
  BY Zenon, <1>3 DEF Longer
<1>5. streak[b].ok => len = 1
  BY Zenon, <1>3 DEF Longer
<1>6. full = IF len >= Fall THEN FALSE ELSE streak[b].full
  BY Zenon DEF Full
<1> HIDE DEF full, len
<1>7. len \in Nat
  <2>1. streak[b].n + 1 \in Nat /\ 1 \in Nat
    BY <1>3
  <2> QED
    BY Zenon, <1>3, <1>4, <1>5, <2>1
<1>8. full \in BOOLEAN
  BY Zenon, <1>3, <1>6
<1> QED
  BY Zenon, <1>1, <1>2, <1>4, <1>5, <1>6, <1>7, <1>8, FailureOf

LEMMA NextStreak == StreakInv /\ RoundInv /\ [hcNext]_hcvars => StreakInv'
<1> SUFFICES ASSUME StreakInv, RoundInv, [hcNext]_hcvars PROVE StreakInv'
  OBVIOUS
<1>1. ASSUME UNCHANGED <<healthy, ok, fail, streak>> PROVE StreakInv'
  BY <1>1 DEF StreakInv, StreakTypes
<1>2. CASE ConnectFails
  <2>1. i \in Id
    BY <1>2 DEF ConnectFails, RoundInv
  <2>2. record_result(i, FALSE)
    BY Zenon, <1>2 DEF ConnectFails
  <2> QED
    BY Zenon, <2>1, <2>2, RecordedFailure
<1>3. ASSUME NEW b \in Id, HandleAnswer(b) PROVE StreakInv'
  <2>1. record_result(b, answer[b] = "ok")
    BY <1>3 DEF HandleAnswer
  <2>2. CASE answer[b] = "ok"
    BY Zenon, <2>1, <2>2, RecordedOk
  <2>3. CASE answer[b] # "ok"
    BY Zenon, <2>1, <2>3, RecordedFailure
  <2> QED
    BY <2>2, <2>3
<1>4. CASE Finish
  <2>1. CASE sock[i] = "pending" /\ ~aborted
    <3>1. i \in Id /\ record_result(i, FALSE)
      BY Zenon, <1>4, <2>1 DEF Finish
    <3> QED
      BY Zenon, <3>1, RecordedFailure
  <2>2. CASE ~(sock[i] = "pending" /\ ~aborted)
    BY ZenonT(40), <1>1, <1>4, <2>2 DEF Finish, health
  <2> QED
    BY <2>1, <2>2
<1>5. ASSUME \/ StartRound \/ Connect \/ Poll \/ PollEnds \/ HandleAdmin \/ HandleWake
             \/ BatchDone \/ RoundDone \/ IntervalEnds \/ WaitAdmin \/ WaitWake \/ Exit
      PROVE  UNCHANGED <<healthy, ok, fail, streak>>
  BY ZenonT(60), <1>5 DEF StartRound, Connect, Poll, PollEnds, HandleAdmin, HandleWake, BatchDone,
              RoundDone, IntervalEnds, WaitAdmin, WaitWake, Exit, health
<1>6. ASSUME \/ RequestStop \/ WriteWake \/ Deadline \/ Joined \/ UNCHANGED hcvars
             \/ \E b \in Id : Answer(b)
             \/ \E line \in Command : WriteFifo(line)
      PROVE  UNCHANGED <<healthy, ok, fail, streak>>
  BY <1>6 DEF RequestStop, WriteWake, Deadline, Joined, Answer, WriteFifo, hcvars, health
<1> QED
  BY <1>1, <1>2, <1>3, <1>4, <1>5, <1>6 DEF hcNext, hcThread

(* However rounds, stops and lost answers interleave, a backend's health   *)
(* is what its last full streak of results says, although record_result    *)
(* calls set_health only at the result that completes a streak.            *)
THEOREM HealthTrue == hcSpec => []HealthIsLastStreak
<1>1. hcInit => StreakInv /\ RoundInv
  BY InitStreak, InitRound
<1>2. StreakInv /\ RoundInv /\ [hcNext]_hcvars => StreakInv' /\ RoundInv'
  BY NextStreak, NextRound
<1> QED
  BY <1>1, <1>2, StreakImplies, PTL DEF hcSpec

-----------------------------------------------------------------------------
(* The process *)

-----------------------------------------------------------------------------
(* Where main is, with what must be there already and what must not be     *)
(* there any more.                                                         *)
Starting == {"parse", "preflight"}
Waiting == {"tui", "check", "kill", "join"}
Running == {"spawn_joiner", "inline"} \cup Waiting
Leaving == {"cleanup", "done"}

Mandatory == {"bm", "tg", "ct", "stats", "dp"}

PlaceInv ==
  /\ main = "build" => step <= Len(Components)
  /\ main = "cleanup" => step <= Len(Cleanup)

(* main builds in order and cleans up in order. *)
BuiltInv ==
  /\ main \in Starting => built = {}
  /\ main = "arp" => built = {"bm"}
  /\ main = "build" => \A j \in 1 .. step - 1 : Components[j] \in Mandatory => Components[j] \in built
  /\ main = "build" => \A j \in step .. Len(Components) : Components[j] \notin built
  /\ main \in Running \cup {"spawn"} => Mandatory \subseteq built
  /\ main = "cleanup" => \A j \in 1 .. step - 1 : Cleanup[j] \notin built
  /\ main = "done" => built = {}

(* An open descriptor has an owner that will close it. *)
FdsInv ==
  \A f \in fds : \/ f = "stop_fd" /\ main \in Waiting
                 \/ \E c \in built : f \in Closes(c)

(* The datapath's thread runs while main waits for it, and the joiner      *)
(* stands for it once it has joined it.                                    *)
DpInv ==
  /\ main \notin Running \cup Leaving => thread["dp"] = "none" /\ thread["joiner"] = "none"
  /\ main \in {"spawn_joiner", "inline"} => thread["joiner"] = "none"
  /\ thread["joiner"] \in {"writing", "ended", "joined"} => thread["dp"] = "joined"
  /\ main \in Leaving =>
       thread["dp"] \in {"none", "joined"} /\ thread["joiner"] \in {"none", "joined"}

(* The exporter and the health checker run only before they are joined,    *)
(* and with what they use; the health checker's counters go first.         *)
Live(t, used, entry) ==
  thread[t] \in {"running", "ended"} =>
    /\ main \notin {"parse", "preflight", "arp", "done"}
    /\ used \subseteq built
    /\ main = "cleanup" => step <= entry

ThreadInv ==
  /\ Live("mh", {"bm", "tg", "ct", "stats", "mh"}, 3)
  /\ Live("hc", {"bm", "tg", "hc"}, 8)
  /\ thread["mh"] \in {"none", "running", "ended", "joined"}
  /\ thread["hc"] \in {"none", "running", "ended", "joined"}

Inv ==
  /\ TypeOK /\ PlaceInv /\ BuiltInv /\ FdsInv /\ DpInv /\ ThreadInv
  /\ LateUseIsOfStatsOnly

-----------------------------------------------------------------------------
(* What the lists of main and the descriptors of its components are. *)
LEMMA ComponentsAre ==
  /\ Len(Components) = 7
  /\ Components[1] = "bm" /\ Components[2] = "tg" /\ Components[3] = "ct"
  /\ Components[4] = "stats" /\ Components[5] = "hc" /\ Components[6] = "mh"
  /\ Components[7] = "dp"
  /\ Range(Components) = {"bm", "tg", "ct", "stats", "hc", "mh", "dp"}
BY DEF Components, Range

LEMMA CleanupIs ==
  /\ Len(Cleanup) = 11
  /\ Cleanup[1] = "dp" /\ Cleanup[2] = "mh_wake" /\ Cleanup[3] = "mh_join"
  /\ Cleanup[4] = "mh" /\ Cleanup[5] = "stats" /\ Cleanup[6] = "ct"
  /\ Cleanup[7] = "hc_wake" /\ Cleanup[8] = "hc_join" /\ Cleanup[9] = "hc"
  /\ Cleanup[10] = "tg" /\ Cleanup[11] = "bm"
BY DEF Cleanup

LEMMA ClosesAre ==
  /\ Closes("dp") = {"raw_fd", "timerfd", "signalfd_fd", "epfd"}
  /\ Closes("hc") = {"hc_wake", "admin_fifo_fd"}
  /\ Closes("mh") = {"mh_wake", "listen_fd"}
BY DEF Closes, DpFds, Range

LEMMA DpOpens ==
  ASSUME NEW n \in 0 .. Len(DpFds)
  PROVE  Range(SubSeq(DpFds, 1, n)) \subseteq Closes("dp")
BY DEF Closes, DpFds, Range

-----------------------------------------------------------------------------
LEMMA InitInv == Init => Inv
<1> SUFFICES ASSUME Init PROVE Inv
  OBVIOUS
<1>1. TypeOK
  BY ComponentsAre DEF Init, TypeOK, Thread
<1>2. thread = [t \in Thread |-> "none"] /\ main = "parse" /\ built = {} /\ fds = {} /\ misuse = {}
  BY DEF Init
<1>3. thread["dp"] = "none" /\ thread["joiner"] = "none" /\ thread["mh"] = "none" /\ thread["hc"] = "none"
  BY SMTT(60), <1>2 DEF Thread
<1> QED
  BY <1>1, <1>2, <1>3 DEF Inv, PlaceInv, BuiltInv, FdsInv, DpInv, ThreadInv, Live, Starting,
     Running, Waiting, Leaving, LateUseIsOfStatsOnly

(* A step that leaves main's place, the components, the descriptors and    *)
(* the threads alone.                                                      *)
LEMMA QuietInv ==
  ASSUME Inv, UNCHANGED <<main, step, built, fds, thread, misuse>>, sigs' \subseteq {"process", "dp"}
  PROVE  Inv'
BY DEF Inv, TypeOK, PlaceInv, BuiltInv, FdsInv, DpInv, ThreadInv, Live, LateUseIsOfStatsOnly

(* Before anything is built main has nothing to clean up. *)
LEMMA StartInv ==
  ASSUME Inv, main \in Starting, UNCHANGED <<built, fds, thread, misuse, sigs>>,
         main' \in {"parse", "preflight", "build", "done"}, step' \in Nat \ {0},
         main' = "build" => step' = 1
  PROVE  Inv'
<1>1. built = {} /\ thread["dp"] = "none" /\ thread["joiner"] = "none"
      /\ thread["mh"] \notin {"running", "ended"} /\ thread["hc"] \notin {"running", "ended"}
  BY DEF Inv, BuiltInv, DpInv, ThreadInv, Live, Starting, Running, Waiting, Leaving
<1>2. fds = {}
  BY <1>1 DEF Inv, FdsInv, Starting, Waiting
<1>3. TypeOK' /\ PlaceInv' /\ LateUseIsOfStatsOnly'
  BY ComponentsAre DEF Inv, TypeOK, PlaceInv, LateUseIsOfStatsOnly
<1>4. BuiltInv'
  <2>1. built' = {}
    BY <1>1
  <2>2. main' # "arp" /\ main' # "cleanup" /\ main' \notin Running \cup {"spawn"}
    BY DEF Running, Waiting
  <2>3. main' = "build" => 1 .. step' - 1 = {}
    OBVIOUS
  <2>4. QED
    BY Zenon, <2>1, <2>2, <2>3 DEF BuiltInv
<1>5. FdsInv' /\ DpInv'
  BY <1>1, <1>2 DEF FdsInv, DpInv, Running, Waiting, Leaving
<1>6. ThreadInv'
  BY <1>1 DEF Inv, ThreadInv, Live
<1> QED
  BY <1>3, <1>4, <1>5, <1>6 DEF Inv

(* Building: main goes on, in order, with what has been built. *)
LEMMA AfterBuildInv ==
  ASSUME Inv, main = "build", AfterBuild(step), UNCHANGED <<misuse, sigs>>,
         \/ built' = built /\ Components[step] \in Optional
         \/ built' = built \cup {Components[step]},
         TypeOK', FdsInv', ThreadInv',
         thread'["dp"] = thread["dp"], thread'["joiner"] = thread["joiner"]
  PROVE  Inv'
<1>1. step \in 1 .. 7 /\ Len(Components) = 7
  BY ComponentsAre DEF Inv, TypeOK, PlaceInv
<1>2. main' \in {"arp", "build", "spawn", "inline"} /\ (main' = "build" => step' = step + 1 /\ step < 7)
      /\ (main' = "arp" => step = 1) /\ (main' \in {"spawn", "inline"} => step = 7)
  BY <1>1, ComponentsAre DEF AfterBuild, Goto
<1>3. PlaceInv' /\ LateUseIsOfStatsOnly'
  BY <1>1, <1>2 DEF Inv, PlaceInv, LateUseIsOfStatsOnly
<1>4. DpInv'
  BY <1>2 DEF Inv, DpInv, Running, Waiting, Leaving
<1>5. /\ \A j \in 1 .. step - 1 : Components[j] \in Mandatory => Components[j] \in built
      /\ \A j \in step .. 7 : Components[j] \notin built
  BY <1>1 DEF Inv, BuiltInv
<1>6. \A j \in 1 .. step : Components[j] \in Mandatory => Components[j] \in built'
  <2>1. Components[step] \in Optional => Components[step] \notin Mandatory
    BY DEF Optional, Mandatory
  <2>2. QED
    BY <1>1, <1>5, <2>1
<1>7. main' = "build" => \A j \in step' .. 7 : Components[j] \notin built'
  <2>1. \A j \in step + 1 .. 7 : Components[j] # Components[step]
    BY <1>1, ComponentsAre
  <2>2. QED
    BY <1>1, <1>2, <1>5, <2>1
<1>8. main' = "arp" => built' = {"bm"}
  <2>1. SUFFICES ASSUME main' = "arp" PROVE built' = {"bm"}
    OBVIOUS
  <2>2. step = 1 /\ built \subseteq Range(Components)
    BY <1>2, <2>1 DEF Inv, TypeOK
  <2>3. built = {}
    BY <1>5, <2>2, ComponentsAre
  <2>4. Components[step] = "bm" /\ "bm" \notin Optional
    BY <2>2, ComponentsAre DEF Optional
  <2>5. QED
    BY <2>3, <2>4
<1>9. main' \in {"spawn", "inline"} => Mandatory \subseteq built'
  BY <1>2, <1>6, ComponentsAre DEF Mandatory
<1>10. BuiltInv'
  <2>1. main' = "build" => 1 .. step' - 1 = 1 .. step
    BY <1>1, <1>2
  <2>2. main' \notin Starting /\ main' # "cleanup" /\ main' # "done"
        /\ (main' \in Running \cup {"spawn"} => main' \in {"spawn", "inline"})
    BY <1>2 DEF Starting, Running, Waiting
  <2>3. QED
    BY <1>1, <1>6, <1>7, <1>8, <1>9, <2>1, <2>2, Zenon DEF BuiltInv
<1> QED
  BY <1>3, <1>4, <1>10 DEF Inv

LEMMA BuildInv ==
  ASSUME Inv, Build
  PROVE  Inv'
<1> DEFINE c == Components[step]
<1>1. main = "build" /\ AfterBuild(step) /\ UNCHANGED <<misuse, sigs>> /\ built' = built \cup {c}
  BY DEF Build, history
<1>2. step \in 1 .. 7 /\ Len(Components) = 7
  BY <1>1, ComponentsAre DEF Inv, TypeOK, PlaceInv
<1>3. main' \in {"arp", "build", "spawn", "inline"} /\ step' \in Nat \ {0}
      /\ (main' = "arp" => step = 1)
  BY <1>1, <1>2, ComponentsAre DEF AfterBuild, Goto
<1>4. c \in Range(Components) /\ Range(Components) = {"bm", "tg", "ct", "stats", "hc", "mh", "dp"}
  BY <1>2, ComponentsAre
<1>5. PICK new \in Opens(c) : fds' = fds \cup new
  BY DEF Build
<1>6. new \subseteq Closes(c)
  <2>1. CASE c = "hc"
    BY <1>5, <2>1, ClosesAre DEF Opens
  <2>2. CASE c = "mh"
    BY <1>5, <2>2, ClosesAre DEF Opens
  <2>3. CASE c # "hc" /\ c # "mh"
    BY <1>5, <2>3 DEF Opens
  <2>4. QED
    BY <2>1, <2>2, <2>3
<1>7. IF c \in Optional THEN \E state \in StartsAs(c) : thread' = [thread EXCEPT ![c] = state]
                        ELSE thread' = thread
  BY DEF Build, Go
<1>8. thread \in [Thread -> {"none", "starting", "running", "returning", "writing", "ended", "joined"}]
  BY DEF Inv, TypeOK
<1>9. thread' \in [Thread -> {"none", "starting", "running", "returning", "writing", "ended", "joined"}]
  BY <1>7, <1>8 DEF Optional, StartsAs
<1>10. /\ thread'["dp"] = thread["dp"] /\ thread'["joiner"] = thread["joiner"]
       /\ thread'["mh"] = thread["mh"] \/ (c = "mh" /\ thread'["mh"] \in {"none", "running", "ended"})
       /\ thread'["hc"] = thread["hc"] \/ (c = "hc" /\ thread'["hc"] \in {"none", "running", "ended"})
  BY <1>7, <1>8 DEF Optional, StartsAs, Thread
<1>11. TypeOK'
  BY <1>1, <1>3, <1>4, <1>9 DEF Inv, TypeOK
<1>12. FdsInv'
  <2>1. SUFFICES ASSUME NEW f \in fds' PROVE \E d \in built' : f \in Closes(d)
    BY DEF FdsInv
  <2>2. CASE f \in fds
    <3>1. PICK d \in built : f \in Closes(d)
      BY <1>1, <2>2 DEF Inv, FdsInv, Waiting
    <3>2. QED
      BY <1>1, <3>1, Zenon
  <2>3. CASE f \in new
    BY <1>1, <1>6, <2>3, Zenon
  <2>4. QED
    BY <1>5, <2>1, <2>2, <2>3
<1>13. \A j \in 1 .. step - 1 : Components[j] \in Mandatory => Components[j] \in built
  BY <1>1, <1>2 DEF Inv, BuiltInv
<1>14. Live("mh", {"bm", "tg", "ct", "stats", "mh"}, 3)'
  <2>1. CASE c = "mh"
    <3>1. step = 6
      BY <1>2, <2>1, ComponentsAre
    <3>2. "bm" \in built /\ "tg" \in built /\ "ct" \in built /\ "stats" \in built
      BY <1>13, <3>1, ComponentsAre DEF Mandatory
    <3>3. QED
      BY <1>1, <1>3, <2>1, <3>1, <3>2 DEF Live
  <2>2. CASE c # "mh"
    <3>1. main' = "arp" => thread["mh"] \notin {"running", "ended"}
      <4>1. SUFFICES ASSUME main' = "arp", thread["mh"] \in {"running", "ended"} PROVE FALSE
        OBVIOUS
      <4>2. "bm" \in built /\ step = 1
        BY <1>3, <4>1 DEF Inv, ThreadInv, Live
      <4>3. QED
        BY <1>1, <1>2, <4>2, ComponentsAre DEF Inv, BuiltInv
    <3>2. QED
      BY <1>1, <1>3, <1>10, <2>2, <3>1 DEF Inv, ThreadInv, Live
  <2>3. QED
    BY <2>1, <2>2
<1>15. Live("hc", {"bm", "tg", "hc"}, 8)'
  <2>1. CASE c = "hc"
    <3>1. step = 5
      BY <1>2, <2>1, ComponentsAre
    <3>2. "bm" \in built /\ "tg" \in built
      BY <1>13, <3>1, ComponentsAre DEF Mandatory
    <3>3. QED
      BY <1>1, <1>3, <2>1, <3>1, <3>2 DEF Live
  <2>2. CASE c # "hc"
    <3>1. main' = "arp" => thread["hc"] \notin {"running", "ended"}
      <4>1. SUFFICES ASSUME main' = "arp", thread["hc"] \in {"running", "ended"} PROVE FALSE
        OBVIOUS
      <4>2. "bm" \in built /\ step = 1
        BY <1>3, <4>1 DEF Inv, ThreadInv, Live
      <4>3. QED
        BY <1>1, <1>2, <4>2, ComponentsAre DEF Inv, BuiltInv
    <3>2. QED
      BY <1>1, <1>3, <1>10, <2>2, <3>1 DEF Inv, ThreadInv, Live
  <2>3. QED
    BY <2>1, <2>2
<1>16. ThreadInv'
  BY <1>10, <1>14, <1>15 DEF Inv, ThreadInv
<1> QED
  BY <1>1, <1>10, <1>11, <1>12, <1>16, AfterBuildInv

(* From wherever main gives up, it starts to clean up once the datapath    *)
(* and the joiner are gone.                                                *)
LEMMA LeaveInv ==
  ASSUME Inv, main \notin Leaving, main' = "cleanup", step' = 1,
         UNCHANGED <<built, misuse, sigs>>, fds' \subseteq fds, "stop_fd" \notin fds', TypeOK',
         thread'["dp"] \in {"none", "joined"}, thread'["joiner"] \in {"none", "joined"},
         thread'["joiner"] = "joined" => thread'["dp"] = "joined",
         thread'["mh"] = thread["mh"], thread'["hc"] = thread["hc"]
  PROVE  Inv'
<1>1. PlaceInv' /\ LateUseIsOfStatsOnly'
  BY CleanupIs DEF Inv, PlaceInv, LateUseIsOfStatsOnly
<1>2. BuiltInv'
  BY DEF BuiltInv, Starting, Running, Waiting
<1>3. FdsInv'
  BY DEF Inv, FdsInv
<1>4. DpInv'
  BY DEF DpInv, Running, Waiting, Leaving
<1>5. ThreadInv'
  BY DEF Inv, ThreadInv, Live, Leaving
<1> QED
  BY <1>1, <1>2, <1>3, <1>4, <1>5 DEF Inv

(* While the datapath runs the components stay. *)
LEMMA RunningInv ==
  ASSUME Inv, main \in Running \cup {"spawn"}, main' \in Running, UNCHANGED <<built, misuse>>,
         TypeOK', FdsInv', DpInv', thread'["mh"] = thread["mh"], thread'["hc"] = thread["hc"]
  PROVE  Inv'
<1>1. PlaceInv' /\ LateUseIsOfStatsOnly'
  BY DEF Inv, PlaceInv, LateUseIsOfStatsOnly, Running, Waiting
<1>2. BuiltInv'
  BY DEF Inv, BuiltInv, Starting, Running, Waiting
<1>3. ThreadInv'
  BY DEF Inv, ThreadInv, Live, Running, Waiting
<1> QED
  BY <1>1, <1>2, <1>3 DEF Inv

(* A thread enters a state and main stays or goes to a place. *)
LEMMA GoType ==
  ASSUME TypeOK, NEW t,
         NEW s \in {"none", "starting", "running", "returning", "writing", "ended", "joined"},
         thread' = [thread EXCEPT ![t] = s],
         main' \in Running \cup Leaving \cup {main}, step' \in Nat \ {0}, built' \subseteq built,
         sigs' \subseteq sigs
  PROVE  TypeOK'
<1>1. thread' \in [Thread -> {"none", "starting", "running", "returning", "writing", "ended",
                              "joined"}]
  BY Zenon DEF TypeOK
<1> QED
  BY <1>1 DEF TypeOK, Running, Waiting, Leaving

LEMMA NoStopFd ==
  ASSUME Inv, main \notin Waiting
  PROVE  "stop_fd" \notin fds
<1>1. SUFFICES ASSUME NEW c \in built, "stop_fd" \in Closes(c) PROVE FALSE
  BY DEF Inv, FdsInv
<1>2. c \in {"bm", "tg", "ct", "stats", "hc", "mh", "dp"}
  BY <1>1, ComponentsAre DEF Inv, TypeOK
<1>3. c \notin {"hc", "mh", "dp"} => Closes(c) = {}
  BY DEF Closes
<1> QED
  BY <1>1, <1>2, <1>3, ClosesAre

LEMMA BuildFailsInv ==
  ASSUME Inv, BuildFails
  PROVE  Inv'
<1>1. main = "build" /\ UNCHANGED <<built, fds, thread, misuse, sigs>>
  BY DEF BuildFails, held, threads, history
<1>2. step \in 1 .. 7 /\ Len(Components) = 7
  BY <1>1, ComponentsAre DEF Inv, TypeOK, PlaceInv
<1>3. CASE Components[step] \in Optional
  <2>1. AfterBuild(step)
    BY <1>3 DEF BuildFails
  <2>2. main' \in {"arp", "build", "spawn", "inline"} /\ step' \in Nat \ {0} /\ main' # "arp"
    BY <1>1, <1>2, <1>3, <2>1, ComponentsAre DEF AfterBuild, Goto, Optional
  <2>3. TypeOK' /\ FdsInv'
    BY <1>1, <2>2 DEF Inv, TypeOK, FdsInv, Waiting
  <2>4. ThreadInv'
    BY <1>1, <2>2 DEF Inv, ThreadInv, Live
  <2>5. QED
    BY <1>1, <1>3, <2>1, <2>3, <2>4, AfterBuildInv
<1>4. CASE Components[step] \notin Optional
  <2>1. main' = "cleanup" /\ step' = 1
    BY <1>4 DEF BuildFails, Goto
  <2>2. TypeOK'
    BY <1>1, <2>1 DEF Inv, TypeOK
  <2>3. thread["dp"] = "none" /\ thread["joiner"] = "none" /\ main \notin Leaving /\ main \notin Waiting
    BY <1>1 DEF Inv, DpInv, Running, Waiting, Leaving
  <2>4. QED
    BY <1>1, <2>1, <2>2, <2>3, LeaveInv, NoStopFd
<1> QED
  BY <1>3, <1>4

LEMMA ArpInv ==
  ASSUME Inv, ArpReply \/ ArpTimesOut \/ ArpFails
  PROVE  Inv'
<1>1. main = "arp" /\ UNCHANGED <<built, fds, thread, misuse, sigs>>
  BY DEF ArpReply, ArpTimesOut, ArpFails, held, threads, history
<1>2. /\ thread["dp"] = "none" /\ thread["joiner"] = "none" /\ built = {"bm"}
      /\ main \notin Leaving /\ main \notin Waiting
  BY <1>1 DEF Inv, BuiltInv, DpInv, Running, Waiting, Leaving
<1>3. CASE ArpReply
  <2>1. (main' = "arp" /\ step' = step + 1) \/ (main' = "build" /\ step' = 2)
    BY <1>1, <1>3 DEF ArpReply
  <2>2. TypeOK' /\ PlaceInv' /\ LateUseIsOfStatsOnly'
    BY <1>1, <2>1, ComponentsAre DEF Inv, TypeOK, PlaceInv, LateUseIsOfStatsOnly
  <2>3. FdsInv' /\ DpInv'
    BY <1>1, <1>2, <2>1 DEF Inv, FdsInv, DpInv, Waiting, Running, Leaving
  <2>4. ThreadInv'
    BY <1>1, <2>1 DEF Inv, ThreadInv, Live
  <2>5. BuiltInv'
    <3>1. main' \notin Starting /\ main' \notin Running \cup {"spawn"} /\ main' # "cleanup" /\ main' # "done"
      BY <2>1 DEF Starting, Running, Waiting
    <3>2. built' = {"bm"}
      BY <1>1, <1>2
    <3>3. main' = "build" => step' = 2
      BY <2>1
    <3>4. \A j \in 1 .. 1 : Components[j] \in built'
      BY <3>2, ComponentsAre
    <3>5. \A j \in 2 .. Len(Components) : Components[j] \notin built'
      BY <3>2, ComponentsAre
    <3>6. main' = "build" => 1 .. step' - 1 = 1 .. 1
      BY <3>3
    <3>7. QED
      BY <3>1, <3>2, <3>3, <3>4, <3>5, <3>6, Zenon DEF BuiltInv
  <2>6. QED
    BY <2>2, <2>3, <2>4, <2>5 DEF Inv
<1>4. CASE ArpTimesOut \/ ArpFails
  <2>1. main' = "cleanup" /\ step' = 1
    BY <1>4 DEF ArpTimesOut, ArpFails, Goto
  <2>2. TypeOK'
    BY <1>1, <2>1 DEF Inv, TypeOK
  <2>3. QED
    BY <1>1, <1>2, <2>1, <2>2, LeaveInv, NoStopFd
<1> QED
  BY <1>3, <1>4

(* run_with_tui up to the join (main.c:63-119). *)
LEMMA SpawnInv ==
  ASSUME Inv, Spawn
  PROVE  Inv'
<1>1. main = "spawn" /\ UNCHANGED <<built, fds, misuse, sigs>> /\ step' = 1
  BY DEF Spawn, Goto, held, history
<1>2. /\ thread["dp"] = "none" /\ thread["joiner"] = "none"
      /\ main \notin Leaving /\ main \notin Waiting /\ main \in Running \cup {"spawn"}
  BY <1>1 DEF Inv, DpInv, Running, Waiting, Leaving
<1>3. thread \in [Thread -> {"none", "starting", "running", "returning", "writing", "ended", "joined"}]
  BY DEF Inv, TypeOK
<1>4. CASE Go("dp", "starting") /\ Goto("spawn_joiner")
  <2>1. main' = "spawn_joiner" /\ thread' = [thread EXCEPT !["dp"] = "starting"]
    BY <1>4 DEF Go, Goto
  <2>2. TypeOK'
    <3>1. main' \in Running /\ step' \in Nat \ {0}
      BY <1>1, <2>1 DEF Running
    <3>2. QED
      BY Zenon, <1>1, <2>1, <3>1, GoType DEF Inv
  <2>3. /\ thread'["dp"] = "starting" /\ thread'["joiner"] = "none"
        /\ thread'["mh"] = thread["mh"] /\ thread'["hc"] = thread["hc"]
    BY SMTT(60), <1>2, <1>3, <2>1 DEF Thread
  <2>4. FdsInv' /\ DpInv' /\ main' \in Running
    BY <1>1, <2>1, <2>3 DEF Inv, FdsInv, DpInv, Waiting, Running, Leaving
  <2>5. QED
    BY <1>1, <1>2, <2>2, <2>3, <2>4, RunningInv
<1>5. CASE UNCHANGED thread /\ Goto("cleanup")
  <2>1. main' = "cleanup"
    BY <1>5 DEF Goto
  <2>2. TypeOK'
    BY <1>1, <1>5, <2>1 DEF Inv, TypeOK
  <2>3. QED
    BY <1>1, <1>2, <1>5, <2>1, <2>2, LeaveInv, NoStopFd
<1> QED
  BY <1>4, <1>5 DEF Spawn

LEMMA SpawnJoinerInv ==
  ASSUME Inv, SpawnJoiner
  PROVE  Inv'
<1>1. /\ main = "spawn_joiner" /\ main' \in {"tui", "check"} /\ step' = 1
      /\ UNCHANGED <<built, misuse, sigs>>
      /\ fds' \subseteq fds \cup {"stop_fd"}
      /\ thread' = thread \/ thread' = [thread EXCEPT !["joiner"] = "running"]
  BY DEF SpawnJoiner, Goto, Go
<1>2. thread["joiner"] = "none"
  BY <1>1 DEF Inv, DpInv
<1>3. thread \in [Thread -> {"none", "starting", "running", "returning", "writing", "ended", "joined"}]
  BY DEF Inv, TypeOK
<1>4. TypeOK'
  BY <1>1, <1>3 DEF Inv, TypeOK
<1>5. /\ thread'["dp"] = thread["dp"] /\ thread'["joiner"] \in {"none", "running"}
      /\ thread'["mh"] = thread["mh"] /\ thread'["hc"] = thread["hc"]
  BY SMTT(60), <1>1, <1>2, <1>3 DEF Thread
<1>6. FdsInv' /\ DpInv' /\ main' \in Running /\ main \in Running
  BY SMTT(60), <1>1, <1>5 DEF Inv, FdsInv, DpInv, Waiting, Running, Leaving
<1> QED
  BY <1>1, <1>4, <1>5, <1>6, RunningInv

LEMMA WaitInv ==
  ASSUME Inv, TuiReturns \/ Check \/ Kill
  PROVE  Inv'
<1>1. /\ main \in Waiting /\ main' \in Waiting /\ step' = 1
      /\ UNCHANGED <<built, fds, thread, misuse>> /\ sigs' \subseteq sigs \cup {"dp"}
  BY DEF TuiReturns, Check, Kill, Goto, held, threads, history, Waiting
<1>2. TypeOK'
  BY <1>1 DEF Inv, TypeOK, Waiting
<1>3. FdsInv' /\ DpInv' /\ main' \in Running /\ main \in Running
  BY <1>1 DEF Inv, FdsInv, DpInv, Waiting, Running, Leaving
<1> QED
  BY <1>1, <1>2, <1>3, RunningInv

LEMMA JoinInv ==
  ASSUME Inv, Join
  PROVE  Inv'
<1> DEFINE t == IF thread["joiner"] = "none" THEN "dp" ELSE "joiner"
<1>1. /\ main = "join" /\ main' = "cleanup" /\ step' = 1 /\ UNCHANGED <<built, misuse, sigs>>
      /\ fds' = fds \ {"stop_fd"} /\ thread[t] = "ended" /\ thread' = [thread EXCEPT ![t] = "joined"]
  BY DEF Join, Goto, Go, history
<1>2. thread \in [Thread -> {"none", "starting", "running", "returning", "writing", "ended", "joined"}]
  BY DEF Inv, TypeOK
<1>3. TypeOK'
  <2>1. main' \in Leaving /\ step' \in Nat \ {0}
    BY <1>1 DEF Leaving
  <2>2. QED
    BY Zenon, <1>1, <2>1, GoType DEF Inv
<1>4. thread["joiner"] = "ended" => thread["dp"] = "joined"
  BY DEF Inv, DpInv
<1>5. /\ thread'["dp"] = "joined" /\ thread'["joiner"] \in {"none", "joined"}
      /\ thread'["mh"] = thread["mh"] /\ thread'["hc"] = thread["hc"]
  BY <1>1, <1>2, <1>4 DEF Thread
<1>6. main \notin Leaving
  BY <1>1 DEF Leaving
<1> QED
  BY <1>1, <1>3, <1>5, <1>6, LeaveInv

LEMMA RunInlineInv ==
  ASSUME Inv, RunInline
  PROVE  Inv'
<1>1. main = "inline" /\ UNCHANGED <<built, fds, misuse, sigs>>
  BY DEF RunInline, held, history
<1>2. thread \in [Thread -> {"none", "starting", "running", "returning", "writing", "ended", "joined"}]
  BY DEF Inv, TypeOK
<1>3. thread["joiner"] = "none" /\ main \notin Leaving /\ main \notin Waiting /\ main \in Running
  BY <1>1 DEF Inv, DpInv, Leaving, Waiting, Running
<1>4. CASE Go("dp", "starting") /\ UNCHANGED at
  <2>1. main' = main /\ step' = step /\ thread' = [thread EXCEPT !["dp"] = "starting"]
    BY <1>4 DEF Go, at
  <2>2. TypeOK'
    <3>1. step' \in Nat \ {0}
      BY <2>1 DEF Inv, TypeOK
    <3>2. QED
      BY Zenon, <1>1, <2>1, <3>1, GoType DEF Inv
  <2>3. /\ thread'["dp"] = "starting" /\ thread'["joiner"] = "none"
        /\ thread'["mh"] = thread["mh"] /\ thread'["hc"] = thread["hc"]
    BY SMTT(60), <1>2, <1>3, <2>1 DEF Thread
  <2>4. FdsInv' /\ DpInv'
    BY <1>1, <2>1, <2>3 DEF Inv, FdsInv, DpInv, Waiting, Running, Leaving
  <2>5. QED
    BY <1>1, <1>3, <2>1, <2>2, <2>3, <2>4, RunningInv
<1>5. CASE Go("dp", "joined") /\ Goto("cleanup")
  <2>1. main' = "cleanup" /\ step' = 1 /\ thread' = [thread EXCEPT !["dp"] = "joined"]
    BY <1>5 DEF Go, Goto
  <2>2. TypeOK'
    <3>1. main' \in Leaving /\ step' \in Nat \ {0}
      BY <2>1 DEF Leaving
    <3>2. QED
      BY Zenon, <1>1, <2>1, <3>1, GoType DEF Inv
  <2>3. /\ thread'["dp"] = "joined" /\ thread'["joiner"] = "none"
        /\ thread'["mh"] = thread["mh"] /\ thread'["hc"] = thread["hc"]
    BY <1>2, <1>3, <2>1 DEF Thread
  <2>4. QED
    BY <1>1, <1>3, <2>1, <2>2, <2>3, LeaveInv, NoStopFd
<1> QED
  BY <1>4, <1>5 DEF RunInline

(* Cleaning up (main.c:316-333): the exporter is joined before anything it *)
(* uses is destroyed, the health checker before all but the counters.      *)
LEMMA CleanUpInv ==
  ASSUME Inv, CleanUp
  PROVE  Inv'
<1> DEFINE entry == Cleanup[step]
<1>1. /\ main = "cleanup" /\ Proceeds(entry) /\ built' = built \ {entry}
      /\ fds' = fds \ Closes(entry) /\ UNCHANGED <<misuse, sigs>>
  BY DEF CleanUp, history
<1>2. thread' = [t \in Thread |->
                   IF thread[t] = "ended" /\ <<entry, t>> \in {<<"mh_join", "mh">>, <<"hc_join", "hc">>}
                   THEN "joined" ELSE thread[t]]
  BY DEF CleanUp
<1>3. step \in 1 .. 11
  BY <1>1, CleanupIs DEF Inv, TypeOK, PlaceInv
<1>4. \/ main' = "cleanup" /\ step < 11 /\ step' = step + 1
      \/ main' = "done" /\ step = 11 /\ step' = 1
  BY <1>1, <1>3, CleanupIs DEF CleanUp, Goto
<1>5. thread \in [Thread -> {"none", "starting", "running", "returning", "writing", "ended", "joined"}]
  BY DEF Inv, TypeOK
<1>6. TypeOK'
  <2>1. thread' \in [Thread -> {"none", "starting", "running", "returning", "writing", "ended",
                                "joined"}]
    BY <1>2, <1>5, Zenon
  <2>2. QED
    BY <1>1, <1>3, <1>4, <2>1 DEF Inv, TypeOK
<1>7. PlaceInv' /\ LateUseIsOfStatsOnly'
  BY <1>1, <1>3, <1>4, CleanupIs DEF Inv, PlaceInv, LateUseIsOfStatsOnly
<1>8. \A j \in 1 .. step : Cleanup[j] \notin built'
  BY <1>1, <1>3 DEF Inv, BuiltInv
<1>9. BuiltInv'
  <2>1. main' \notin Starting /\ main' # "arp" /\ main' # "build" /\ main' \notin Running \cup {"spawn"}
    BY <1>4 DEF Starting, Running, Waiting
  <2>2. main' = "cleanup" => 1 .. step' - 1 = 1 .. step
    BY <1>3, <1>4
  <2>3. main' = "done" => built' = {}
    <3>1. built' \subseteq {"bm", "tg", "ct", "stats", "hc", "mh", "dp"}
      BY <1>6, ComponentsAre DEF TypeOK
    <3>2. step = 11 => built' = {}
      BY <1>8, <3>1, CleanupIs
    <3>3. QED
      BY <1>4, <3>2
  <2>4. QED
    BY <1>8, <2>1, <2>2, <2>3, Zenon DEF BuiltInv
<1>10. FdsInv'
  <2>1. SUFFICES ASSUME NEW f \in fds' PROVE \E c \in built' : f \in Closes(c)
    BY DEF FdsInv
  <2>2. f \in fds /\ f \notin Closes(entry)
    BY <1>1, <2>1
  <2>3. PICK c \in built : f \in Closes(c)
    BY <1>1, <2>2 DEF Inv, FdsInv, Waiting
  <2>4. QED
    BY <1>1, <2>2, <2>3, Zenon
<1>11. thread'["dp"] = thread["dp"] /\ thread'["joiner"] = thread["joiner"]
  BY <1>2 DEF Thread
<1>12. DpInv'
  BY <1>1, <1>4, <1>11 DEF Inv, DpInv, Running, Waiting, Leaving
<1>13. /\ thread'["mh"] = IF thread["mh"] = "ended" /\ entry = "mh_join" THEN "joined" ELSE thread["mh"]
       /\ thread'["hc"] = IF thread["hc"] = "ended" /\ entry = "hc_join" THEN "joined" ELSE thread["hc"]
  BY <1>2 DEF Thread
<1>14. Live("mh", {"bm", "tg", "ct", "stats", "mh"}, 3)'
  <2>1. SUFFICES ASSUME thread'["mh"] \in {"running", "ended"}
                 PROVE  /\ main' = "cleanup" /\ step' <= 3
                        /\ {"bm", "tg", "ct", "stats", "mh"} \subseteq built'
    BY DEF Live
  <2>2. thread["mh"] = thread'["mh"]
    BY <1>13, <2>1
  <2>3. step <= 3 /\ {"bm", "tg", "ct", "stats", "mh"} \subseteq built
    BY <1>1, <2>1, <2>2 DEF Inv, ThreadInv, Live
  <2>4. step # 3
    <3>1. SUFFICES ASSUME step = 3 PROVE FALSE
      OBVIOUS
    <3>2. entry = "mh_join"
      BY <3>1, CleanupIs
    <3>3. thread["mh"] = "ended"
      BY <1>1, <2>1, <2>2, <3>2 DEF Proceeds
    <3>4. QED
      BY <1>13, <2>1, <3>2, <3>3
  <2>5. entry \in {"dp", "mh_wake"}
    BY <1>3, <2>3, <2>4, CleanupIs
  <2>6. QED
    BY <1>1, <1>3, <1>4, <2>3, <2>4, <2>5
<1>15. Live("hc", {"bm", "tg", "hc"}, 8)'
  <2>1. SUFFICES ASSUME thread'["hc"] \in {"running", "ended"}
                 PROVE  main' = "cleanup" /\ step' <= 8 /\ {"bm", "tg", "hc"} \subseteq built'
    BY DEF Live
  <2>2. thread["hc"] = thread'["hc"]
    BY <1>13, <2>1
  <2>3. step <= 8 /\ {"bm", "tg", "hc"} \subseteq built
    BY <1>1, <2>1, <2>2 DEF Inv, ThreadInv, Live
  <2>4. step # 8
    <3>1. SUFFICES ASSUME step = 8 PROVE FALSE
      OBVIOUS
    <3>2. entry = "hc_join"
      BY <3>1, CleanupIs
    <3>3. thread["hc"] = "ended"
      BY <1>1, <2>1, <2>2, <3>2 DEF Proceeds
    <3>4. QED
      BY <1>13, <2>1, <3>2, <3>3
  <2>5. entry \notin {"bm", "tg", "hc"}
    BY <1>3, <2>3, <2>4, CleanupIs
  <2>6. QED
    BY <1>1, <1>3, <1>4, <2>3, <2>4, <2>5
<1>16. ThreadInv'
  BY <1>13, <1>14, <1>15 DEF Inv, ThreadInv
<1> QED
  BY <1>6, <1>7, <1>9, <1>10, <1>12, <1>16 DEF Inv

-----------------------------------------------------------------------------
(* The datapath's thread runs only while main waits for it. *)
LEMMA DpIsWaitedFor ==
  ASSUME Inv, thread["dp"] \in {"starting", "running", "returning", "ended"}
  PROVE  main \in Running /\ Mandatory \subseteq built
<1>1. main \in Running
  BY DEF Inv, DpInv, Leaving
<1> QED
  BY <1>1 DEF Inv, BuiltInv

LEMMA DpMovesInv ==
  ASSUME Inv, thread["dp"] \in {"starting", "running", "returning"}, UNCHANGED <<main, step, built, misuse>>,
         NEW s \in {"running", "returning", "ended"}, thread' = [thread EXCEPT !["dp"] = s],
         fds' \subseteq fds \cup Closes("dp"), sigs' \subseteq sigs
  PROVE  Inv'
<1>1. main \in Running /\ Mandatory \subseteq built
  BY DpIsWaitedFor
<1>2. thread \in [Thread -> {"none", "starting", "running", "returning", "writing", "ended", "joined"}]
  BY DEF Inv, TypeOK
<1>3. TypeOK'
  <2>1. s \in {"none", "starting", "running", "returning", "writing", "ended", "joined"}
        /\ step \in Nat \ {0}
    BY DEF Inv, TypeOK
  <2>2. QED
    BY <2>1, GoType, Zenon DEF Inv
<1>4. /\ thread'["dp"] = s /\ thread'["joiner"] = thread["joiner"]
      /\ thread'["mh"] = thread["mh"] /\ thread'["hc"] = thread["hc"]
  BY <1>2 DEF Thread
<1>5. thread["joiner"] \notin {"writing", "ended", "joined"}
  BY SMTT(60) DEF Inv, DpInv
<1>6. DpInv'
  BY <1>1, <1>4, <1>5 DEF Inv, DpInv, Running, Waiting, Leaving
<1>7. FdsInv'
  <2>1. "dp" \in built'
    BY <1>1 DEF Mandatory
  <2>2. QED
    BY <2>1 DEF Inv, FdsInv
<1> QED
  BY <1>1, <1>3, <1>4, <1>6, <1>7, RunningInv

LEMMA DpInvs ==
  ASSUME Inv, DpStarts \/ DpStops \/ DpFails \/ DpReturns
  PROVE  Inv'
<1>1. CASE DpStarts
  <2>1. PICK n \in 0 .. Len(DpFds) :
          /\ fds' = fds \cup Range(SubSeq(DpFds, 1, n))
          /\ Go("dp", "running") \/ Go("dp", "ended")
    BY <1>1, Zenon DEF DpStarts
  <2>2. fds' \subseteq fds \cup Closes("dp")
    BY <2>1, DpOpens
  <2>3. thread["dp"] = "starting" /\ UNCHANGED <<main, step, built, misuse, sigs>>
    BY <1>1 DEF DpStarts, at, history
  <2>4. CASE Go("dp", "running")
    BY <2>2, <2>3, <2>4, DpMovesInv DEF Go
  <2>5. CASE Go("dp", "ended")
    BY <2>2, <2>3, <2>5, DpMovesInv DEF Go
  <2>6. QED
    BY <2>1, <2>4, <2>5
<1>2. CASE DpStops
  <2>1. /\ thread["dp"] = "running" /\ UNCHANGED <<main, step, built, fds, misuse>>
        /\ sigs' \subseteq sigs /\ thread' = [thread EXCEPT !["dp"] = "returning"]
    BY <1>2 DEF DpStops, at, held, history, Go
  <2>2. QED
    BY <2>1, DpMovesInv
<1>3. CASE DpFails
  <2>1. /\ thread["dp"] = "running" /\ UNCHANGED <<main, step, built, fds, misuse, sigs>>
        /\ thread' = [thread EXCEPT !["dp"] = "returning"]
    BY <1>3 DEF DpFails, at, held, history, Go
  <2>2. QED
    BY <2>1, DpMovesInv
<1>4. CASE DpReturns
  <2>1. /\ thread["dp"] = "returning" /\ UNCHANGED <<main, step, built, fds, misuse>>
        /\ sigs' \subseteq sigs /\ thread' = [thread EXCEPT !["dp"] = "ended"]
    BY <1>4 DEF DpReturns, at, held, history, Go
  <2>2. QED
    BY <2>1, DpMovesInv
<1> QED
  BY <1>1, <1>2, <1>3, <1>4

LEMMA JoinerInv ==
  ASSUME Inv, Joiner
  PROVE  Inv'
<1>1. UNCHANGED <<main, step, built, fds, misuse, sigs>>
  BY DEF Joiner, JoinerJoins, JoinerReports, at, held, history
<1>2. thread \in [Thread -> {"none", "starting", "running", "returning", "writing", "ended", "joined"}]
  BY DEF Inv, TypeOK
<1>3. main \in Running /\ main \notin {"spawn_joiner", "inline"}
  BY DEF Inv, DpInv, Joiner, JoinerJoins, JoinerReports, Running, Waiting, Leaving
<1>4. FdsInv'
  BY <1>1 DEF Inv, FdsInv
<1>5. CASE JoinerJoins
  <2>1. thread' = [thread EXCEPT !["dp"] = "joined", !["joiner"] = "writing"]
    BY <1>5 DEF JoinerJoins
  <2>2. thread' \in [Thread -> {"none", "starting", "running", "returning", "writing", "ended",
                                "joined"}]
    BY <1>2, <2>1, Zenon
  <2>3. /\ thread'["dp"] = "joined" /\ thread'["joiner"] = "writing"
        /\ thread'["mh"] = thread["mh"] /\ thread'["hc"] = thread["hc"]
    BY <1>2, <2>1 DEF Thread
  <2>4. TypeOK'
    BY <1>1, <2>2 DEF Inv, TypeOK
  <2>5. DpInv'
    BY <1>1, <1>3, <2>3 DEF DpInv, Running, Waiting, Leaving
  <2>6. QED
    BY <1>1, <1>3, <1>4, <2>3, <2>4, <2>5, RunningInv
<1>6. CASE JoinerReports
  <2>1. thread' = [thread EXCEPT !["joiner"] = "ended"] /\ thread["joiner"] = "writing"
    BY <1>6 DEF JoinerReports, Go
  <2>2. thread' \in [Thread -> {"none", "starting", "running", "returning", "writing", "ended",
                                "joined"}]
    BY <1>2, <2>1, Zenon
  <2>3. /\ thread'["dp"] = thread["dp"] /\ thread'["joiner"] = "ended"
        /\ thread'["mh"] = thread["mh"] /\ thread'["hc"] = thread["hc"]
    BY SMTT(60), <1>2, <2>1 DEF Thread
  <2>4. TypeOK'
    BY <1>1, <2>2 DEF Inv, TypeOK
  <2>5. DpInv'
    BY <1>1, <1>3, <2>1, <2>3 DEF Inv, DpInv, Running, Waiting, Leaving
  <2>6. QED
    BY <1>1, <1>3, <1>4, <2>3, <2>4, <2>5, RunningInv
<1> QED
  BY <1>5, <1>6 DEF Joiner

(* A thread at work finds what it uses, but for the counters the health    *)
(* checker may miss.                                                       *)
LEMMA WorksInv ==
  ASSUME Inv, DpWorks \/ HcWorks \/ MhWorks
  PROVE  Inv'
<1>1. UNCHANGED <<main, step, built, fds, thread, sigs>>
  BY DEF DpWorks, HcWorks, MhWorks, at, held, threads
<1>2. misuse' \subseteq misuse \cup {<<"hc", "stats">>}
  <2>1. CASE DpWorks
    <3>1. {"dp", "tg", "ct", "stats"} \ built = {}
      BY <2>1, DpIsWaitedFor DEF DpWorks, Mandatory
    <3>2. QED
      BY <2>1, <3>1 DEF DpWorks, Touch
  <2>2. CASE HcWorks
    <3>1. PICK used \in {{"bm"}, {"bm", "stats"}, {"bm", "tg"}} : Touch("hc", used \cup {"hc"})
      BY <2>2 DEF HcWorks
    <3>2. {"bm", "tg", "hc"} \subseteq built
      BY <2>2 DEF HcWorks, Inv, ThreadInv, Live
    <3>3. (used \cup {"hc"}) \ built \subseteq {"stats"}
      BY <3>1, <3>2
    <3>4. {"hc"} \X ((used \cup {"hc"}) \ built) \subseteq {<<"hc", "stats">>}
      BY <3>3
    <3>5. QED
      BY <3>1, <3>4 DEF Touch
  <2>3. CASE MhWorks
    <3>1. {"bm", "tg", "ct", "stats", "mh"} \ built = {}
      BY <2>3 DEF MhWorks, Inv, ThreadInv, Live
    <3>2. QED
      BY <2>3, <3>1 DEF MhWorks, Touch
  <2>4. QED
    BY <2>1, <2>2, <2>3
<1>3. LateUseIsOfStatsOnly'
  BY SMTT(60), <1>2 DEF Inv, LateUseIsOfStatsOnly
<1>4. TypeOK' /\ PlaceInv' /\ BuiltInv' /\ FdsInv' /\ DpInv' /\ ThreadInv'
  <2>1. Inv
    OBVIOUS
  <2>2. TypeOK' /\ PlaceInv'
    BY <1>1, <2>1, ZenonT(60) DEF Inv, TypeOK, PlaceInv
  <2>3. BuiltInv' /\ FdsInv'
    BY <1>1, <2>1, ZenonT(60) DEF Inv, BuiltInv, FdsInv
  <2>4. DpInv' /\ ThreadInv'
    BY <1>1, <2>1, ZenonT(60) DEF Inv, DpInv, ThreadInv, Live
  <2>5. QED
    BY <2>2, <2>3, <2>4, Zenon
<1> QED
  BY SMTT(60), <1>3, <1>4 DEF Inv

LEMMA WokenInv ==
  ASSUME Inv, NEW t \in Optional, Woken(t)
  PROVE  Inv'
<1>1. /\ UNCHANGED <<main, step, built, fds, misuse, sigs>>
      /\ thread[t] = "running" /\ thread' = [thread EXCEPT ![t] = "ended"]
  BY DEF Woken, Go, at, held, history
<1>2. thread \in [Thread -> {"none", "starting", "running", "returning", "writing", "ended", "joined"}]
  BY DEF Inv, TypeOK
<1>3. thread' \in [Thread -> {"none", "starting", "running", "returning", "writing", "ended", "joined"}]
  BY <1>1, <1>2, Zenon
<1>4. /\ thread'["dp"] = thread["dp"] /\ thread'["joiner"] = thread["joiner"]
      /\ thread'["mh"] = thread["mh"] \/ (thread["mh"] = "running" /\ thread'["mh"] = "ended")
      /\ thread'["hc"] = thread["hc"] \/ (thread["hc"] = "running" /\ thread'["hc"] = "ended")
  BY <1>1, <1>2 DEF Thread, Optional
<1>5. TypeOK' /\ PlaceInv' /\ BuiltInv' /\ FdsInv' /\ LateUseIsOfStatsOnly'
  BY SMTT(60), <1>1, <1>3 DEF Inv, TypeOK, PlaceInv, BuiltInv, FdsInv, LateUseIsOfStatsOnly
<1>6. DpInv' /\ ThreadInv'
  BY <1>1, <1>4 DEF Inv, DpInv, ThreadInv, Live
<1> QED
  BY <1>5, <1>6 DEF Inv

-----------------------------------------------------------------------------
LEMMA MainInv ==
  ASSUME Inv, Main
  PROVE  Inv'
<1>1. CASE ParseOption
  <2>1. UNCHANGED <<main, step, built, fds, thread, misuse, sigs>>
    BY <1>1 DEF ParseOption, at, held, threads, history
  <2>2. QED
    BY <2>1, QuietInv DEF Inv, TypeOK
<1>2. CASE Parsed \/ CheckSize \/ Preflight \/ PreflightFails
  <2>1. /\ main \in Starting /\ UNCHANGED <<built, fds, thread, misuse, sigs>>
        /\ main' \in {"parse", "preflight", "build", "done"} /\ step' \in Nat \ {0}
        /\ main' = "build" => step' = 1
    BY <1>2 DEF Parsed, CheckSize, Preflight, PreflightFails, Goto, Starting, held, threads, history
  <2>2. QED
    BY SMTT(60), <2>1, StartInv
<1>3. CASE Build \/ BuildFails
  BY <1>3, BuildInv, BuildFailsInv
<1>4. CASE ArpTimesOut
  BY <1>4, ArpInv
<1>5. CASE Spawn \/ SpawnJoiner \/ TuiReturns \/ Check \/ Kill \/ Join \/ RunInline
  BY <1>5, SpawnInv, SpawnJoinerInv, WaitInv, JoinInv, RunInlineInv
<1>6. CASE CleanUp
  BY <1>6, CleanUpInv
<1> QED
  BY <1>1, <1>2, <1>3, <1>4, <1>5, <1>6, ZenonT(60) DEF Main

LEMMA SigtermInv ==
  ASSUME Inv, Sigterm
  PROVE  Inv'
<1>1. UNCHANGED <<built, fds, thread, misuse>>
  BY DEF Sigterm, held, threads, history
<1>2. CASE Blocked
  <2>1. UNCHANGED <<main, step>> /\ sigs' = sigs \cup {"process"}
    BY <1>2 DEF Sigterm, at
  <2>2. sigs' \subseteq {"process", "dp"}
    BY <2>1 DEF Inv, TypeOK
  <2>3. QED
    BY <1>1, <2>1, <2>2, QuietInv
<1>3. CASE ~Blocked
  <2>1. main' = "done" /\ step' = 1 /\ UNCHANGED sigs /\ main \in Starting
    BY <1>3 DEF Sigterm, Goto, Blocked, Starting
  <2>2. QED
    BY <1>1, <2>1, StartInv
<1> QED
  BY <1>2, <1>3

LEMMA NextInv ==
  ASSUME Inv, Next
  PROVE  Inv'
<1>1. CASE Main
  BY <1>1, MainInv
<1>2. CASE ArpReply \/ ArpFails
  BY SMTT(60), <1>2, ArpInv
<1>3. CASE ArpOther \/ ArpDeadline \/ PressQ \/ Exited
  <2>1. UNCHANGED <<main, step, built, fds, thread, misuse, sigs>>
    BY <1>3 DEF ArpOther, ArpDeadline, PressQ, Exited, vars, at, held, threads, history
  <2>2. QED
    BY <2>1, QuietInv DEF Inv, TypeOK
<1>4. CASE Dp \/ DpFails
  BY <1>4, DpInvs DEF Dp
<1>5. CASE Joiner
  BY <1>5, JoinerInv
<1>6. CASE DpWorks \/ HcWorks \/ MhWorks
  BY <1>6, WorksInv
<1>7. CASE \E t \in Optional : Woken(t)
  BY <1>7, WokenInv
<1>8. CASE Sigterm
  BY <1>8, SigtermInv
<1> QED
  BY <1>1, <1>2, <1>3, <1>4, <1>5, <1>6, <1>7, <1>8, Zenon DEF Next

-----------------------------------------------------------------------------
(* The invariant: what main has built and not destroyed is known from      *)
(* where it is, every descriptor has an owner, and the threads run only    *)
(* while main has yet to join them.                                        *)
THEOREM ProcessInvariant == Spec => []Inv
<1>1. Inv /\ [Next]_vars => Inv'
  <2>1. CASE UNCHANGED vars
    <3>1. UNCHANGED <<main, step, built, fds, thread, misuse, sigs>>
      BY <2>1 DEF vars, at, held, threads, history
    <3>2. QED
      BY <3>1, QuietInv DEF Inv, TypeOK
  <2>2. QED
    BY <2>1, NextInv
<1> QED
  BY <1>1, InitInv, PTL DEF Spec

(* No thread uses a destroyed component, wherever main gives up and        *)
(* whenever a signal comes, except the health checker the counters         *)
(* (main.c:316-333).                                                       *)
THEOREM LateUses == Spec => []LateUseIsOfStatsOnly
<1>1. Inv => LateUseIsOfStatsOnly
  BY DEF Inv
<1> QED
  BY <1>1, ProcessInvariant, PTL

(* main returns with nothing built, no descriptor open and no thread left. *)
THEOREM CleanExit == Spec => []ExitIsClean
<1>1. Inv => ExitIsClean
  <2> SUFFICES ASSUME Inv, main = "done"
               PROVE  built = {} /\ fds = {} /\ \A t \in Thread : thread[t] \in {"none", "joined"}
    BY DEF ExitIsClean
  <2>1. built = {}
    BY DEF Inv, BuiltInv
  <2>2. fds = {}
    BY <2>1 DEF Inv, FdsInv, Waiting
  <2>3. thread["dp"] \in {"none", "joined"} /\ thread["joiner"] \in {"none", "joined"}
    BY DEF Inv, DpInv, Leaving
  <2>4. thread["mh"] \in {"none", "joined"} /\ thread["hc"] \in {"none", "joined"}
    BY DEF Inv, ThreadInv, Live
  <2> QED
    BY <2>1, <2>2, <2>3, <2>4 DEF Thread
<1> QED
  BY <1>1, ProcessInvariant, PTL
=============================================================================
