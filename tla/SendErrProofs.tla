--------------------------- MODULE SendErrProofs ---------------------------
(***************************************************************************)
(* For any environment, any error rate, any number of processes and any    *)
(* number of messages: which messages libcpe464 drops and which it leaves  *)
(* alone.                                                                  *)
(***************************************************************************)
EXTENDS SendErr, TLAPS

\* The messages the environment lists; none, if it has no list to drop by.
List == IF env.drop.set THEN parsed(env.drop.to) ELSE {}

EnvInv ==
  /\ env \in [drop : Setting(ListSettings), flip : Setting(ListSettings),
              rate : Setting(RateSettings)]
  /\ error_rate \in ErrorRates

ConstantCases(list) == {infoSeqNo, DropSpecific(list)}
ChanceCases == (IF Listed THEN {} ELSE {errorDrop}) \cup (IF Flips THEN {errorFlipBits} ELSE {})

\* What a PacketManager is made of, whichever process it was copied from.
MgrInv(m) ==
  /\ m \in [ErrorRate : 0 .. Scale, Constant : Seq(ConstantCases(List)),
            Chance : Seq(ChanceCases), MsgNo : Nat]
  /\ rateIsSet(env) => m.ErrorRate = env.rate.to
  /\ Listed => \E i \in DOMAIN m.Constant : m.Constant[i] = DropSpecific(List)
  /\ ~Listed /\ env.drop.set => m.Chance # <<>>

\* What sendErr_init added.
ReadyInv(m) == m.ErrorRate = Rate /\ (~Listed => m.Chance # <<>>)

ProcsInv ==
  /\ pc \in [Procs -> {"free", "LOADED", "READY"}]
  /\ DOMAIN mgr = Procs
  /\ \A p \in Procs : MgrInv(mgr[p]) /\ (pc[p] = "READY" => ReadyInv(mgr[p]))

IInv == EnvInv /\ ProcsInv /\ DropsAsConfigured /\ NeverChanged

-----------------------------------------------------------------------------
(* The operators.                                                          *)

\* The constant cases drop the messages of the list and change none.
LEMMA ConstantVerdict ==
  ASSUME NEW list, NEW cases \in Seq(ConstantCases(list)), NEW n
  PROVE  runMsgEvents(cases, n) =
           IF n \in list /\ \E i \in DOMAIN cases : cases[i] = DropSpecific(list)
           THEN Dropped ELSE Same
<1> DEFINE results == {run(cases[i], n) : i \in DOMAIN cases}
<1>1. \A i \in DOMAIN cases : cases[i] = infoSeqNo \/ cases[i] = DropSpecific(list)
  BY DEF ConstantCases
<1>2. run(infoSeqNo, n) = Same
  BY DEF run, infoSeqNo
<1>3. run(DropSpecific(list), n) = IF n \in list THEN Dropped ELSE Same
  BY DEF run, DropSpecific
<1>4. Changed \notin results
  BY <1>1, <1>2, <1>3 DEF Changed, Dropped, Same
<1>5. Dropped \in results <=>
        n \in list /\ \E i \in DOMAIN cases : cases[i] = DropSpecific(list)
  BY <1>1, <1>2, <1>3 DEF Dropped, Same
<1> QED
  BY <1>4, <1>5 DEF runMsgEvents

\* A random case is one of the cases there are.
LEMMA PickIsACase ==
  ASSUME NEW S, NEW cases \in Seq(S), cases # <<>>, NEW pick \in 1 .. Max({1, Len(cases)})
  PROVE  cases[pick] \in S
<1>1. Len(cases) \in Nat /\ Len(cases) >= 1
  OBVIOUS
<1>2. Max({1, Len(cases)}) = Len(cases)
  BY <1>1 DEF Max
<1> QED
  BY <1>1, <1>2

LEMMA ChanceVerdict ==
  ASSUME NEW n
  PROVE  run(errorDrop, n) = Dropped /\ run(errorFlipBits, n) = Changed
BY DEF run, errorDrop, errorFlipBits

-----------------------------------------------------------------------------
(* The inductive invariant.                                                *)

\* A setting is absent, or has a value.
LEMMA SettingFacts ==
  ASSUME NEW V, NEW e \in Setting(V)
  PROVE  e.set \in BOOLEAN /\ (e.set => e.to \in V /\ e = [set |-> TRUE, to |-> e.to])
<1>1. CASE e = Unset
  <2>1. e.set = FALSE
    BY <1>1 DEF Unset
  <2> QED
    BY <2>1
<1>2. CASE e \in [set : {TRUE}, to : V]
  <2>1. e.set = TRUE /\ e.to \in V /\ e = [set |-> e.set, to |-> e.to]
    BY <1>2
  <2> QED
    BY <2>1
<1> QED
  BY <1>1, <1>2 DEF Setting

LEMMA EnvFacts ==
  ASSUME EnvInv
  PROVE  /\ Listed \in BOOLEAN /\ Flips \in BOOLEAN /\ rateIsSet(env) \in BOOLEAN
         /\ env.drop.set \in BOOLEAN /\ env.flip.set \in BOOLEAN
         /\ List = IF Listed THEN parsed(env.drop.to) ELSE {}
         /\ Listed => env.drop.set
         /\ rateIsSet(env) => env.rate.to \in 0 .. Scale
         /\ error_rate \in 0 .. Scale /\ 0 \in 0 .. Scale
<1>1. env.drop.set \in BOOLEAN /\ env.flip.set \in BOOLEAN /\ env.rate.set \in BOOLEAN
  <2>1. /\ env.drop \in Setting(ListSettings) /\ env.flip \in Setting(ListSettings)
        /\ env.rate \in Setting(RateSettings)
    BY DEF EnvInv
  <2> QED
    BY <2>1, SettingFacts
<1>2. Listed \in BOOLEAN /\ Flips \in BOOLEAN /\ rateIsSet(env) \in BOOLEAN
  BY <1>1 DEF Listed, Flips, rateIsSet
<1>3. List = (IF Listed THEN parsed(env.drop.to) ELSE {}) /\ (Listed => env.drop.set)
  BY <1>1 DEF List, Listed
<1>4. ASSUME rateIsSet(env) PROVE env.rate.to \in 0 .. Scale
  <2>1. env.rate \in Setting(RateSettings) /\ env.rate.set
    BY <1>4 DEF EnvInv, rateIsSet
  <2>2. env.rate.to \in RateSettings /\ env.rate = [set |-> TRUE, to |-> env.rate.to]
    BY <2>1, SettingFacts
  <2>3. env.rate.to # Bad
    BY <1>4, <2>2 DEF rateIsSet
  <2> QED
    BY <2>2, <2>3, SendErrAssumption
<1> QED
  BY <1>1, <1>2, <1>3, <1>4, SendErrAssumption DEF EnvInv

\* The constructors.
LEMMA LoadedKeeps ==
  ASSUME EnvInv PROVE MgrInv(Loaded(env))
<1> DEFINE m == Loaded(env)
           drop == IF env.drop.set /\ parsed(env.drop.to) = {} THEN <<errorDrop>> ELSE <<>>
           flip == IF env.flip.set /\ parsed(env.flip.to) = {} THEN <<errorFlipBits>> ELSE <<>>
<1>1. m.ErrorRate \in 0 .. Scale /\ (rateIsSet(env) => m.ErrorRate = env.rate.to)
  BY EnvFacts DEF Loaded
<1>2. m.Constant = IF Listed THEN <<DropSpecific(List)>> ELSE <<>>
  BY EnvFacts DEF Loaded, Listed, List
<1>3. m.Constant \in Seq(ConstantCases(List))
  BY <1>2 DEF ConstantCases
<1>4. Listed => \E i \in DOMAIN m.Constant : m.Constant[i] = DropSpecific(List)
  BY <1>2
<1>5. m.Chance = drop \o flip
  BY DEF Loaded
<1>6. drop \in Seq(ChanceCases) /\ (~Listed /\ env.drop.set => drop = <<errorDrop>>)
  <2>1. CASE env.drop.set /\ parsed(env.drop.to) = {}
    <3>1. errorDrop \in ChanceCases /\ drop = <<errorDrop>>
      BY <2>1 DEF ChanceCases, Listed
    <3> QED
      BY <3>1
  <2>2. CASE ~(env.drop.set /\ parsed(env.drop.to) = {})
    BY <2>2 DEF Listed
  <2> QED
    BY <2>1, <2>2
<1>7. flip \in Seq(ChanceCases)
  <2>1. CASE Flips
    <3>1. errorFlipBits \in ChanceCases /\ flip = <<errorFlipBits>>
      BY <2>1 DEF ChanceCases, Flips
    <3> QED
      BY <3>1
  <2>2. CASE ~Flips
    BY <2>2 DEF Flips
  <2> QED
    BY <2>1, <2>2
<1> HIDE DEF drop, flip
<1>8. m.Chance \in Seq(ChanceCases) /\ (~Listed /\ env.drop.set => m.Chance # <<>>)
  <2>1. m.Chance \in Seq(ChanceCases) /\ Len(m.Chance) = Len(drop) + Len(flip)
    BY <1>5, <1>6, <1>7
  <2>2. ASSUME ~Listed, env.drop.set PROVE m.Chance # <<>>
    <3>1. Len(drop) = 1
      BY <1>6, <2>2
    <3>2. Len(flip) \in Nat
      BY <1>7
    <3>3. Len(m.Chance) # 0
      BY <2>1, <3>1, <3>2
    <3> QED
      BY <3>3
  <2> QED
    BY <2>1, <2>2
<1>9. m \in [ErrorRate : 0 .. Scale, Constant : Seq(ConstantCases(List)),
             Chance : Seq(ChanceCases), MsgNo : Nat]
  <2>1. m = [ErrorRate |-> m.ErrorRate, Constant |-> m.Constant, Chance |-> m.Chance, MsgNo |-> 0]
    BY DEF Loaded
  <2> QED
    BY <1>1, <1>3, <1>8, <2>1
<1> QED
  BY <1>1, <1>4, <1>8, <1>9 DEF MgrInv

\* sendErr_init, on a fresh manager or on a copy that went through it before.
LEMMA InitMakesReady ==
  ASSUME EnvInv, NEW m, MgrInv(m)
  PROVE  MgrInv(sendErr_init(m)) /\ ReadyInv(sendErr_init(m))
<1> DEFINE rate == IF rateIsSet(env) THEN m.ErrorRate ELSE error_rate
           chance == IF env.drop.set THEN m.Chance ELSE Append(m.Chance, errorDrop)
           constant == Append(m.Constant, infoSeqNo)
           r == [ErrorRate |-> rate, Constant |-> constant, Chance |-> chance, MsgNo |-> m.MsgNo]
<1>1. /\ m \in [ErrorRate : 0 .. Scale, Constant : Seq(ConstantCases(List)),
                Chance : Seq(ChanceCases), MsgNo : Nat]
      /\ rateIsSet(env) => m.ErrorRate = env.rate.to
  BY DEF MgrInv
<1>2. sendErr_init(m) = r
  BY <1>1, EnvFacts
     DEF sendErr_init, setUserMode_ErrFlip, setUserMode_ErrDrop, setUserMode_ErrRate
<1>3. rate \in 0 .. Scale /\ rate = Rate
  BY <1>1, EnvFacts DEF Rate
<1>4. constant \in Seq(ConstantCases(List))
  BY <1>1 DEF ConstantCases
<1>5. Listed => \E i \in DOMAIN constant : constant[i] = DropSpecific(List)
  BY <1>1 DEF MgrInv
<1>6. chance \in Seq(ChanceCases) /\ (~Listed => chance # <<>>)
  <2>1. CASE env.drop.set
    BY <1>1, <2>1 DEF MgrInv
  <2>2. ASSUME ~env.drop.set PROVE chance \in Seq(ChanceCases) /\ chance # <<>>
    <3>1. errorDrop \in ChanceCases
      BY <2>2, EnvFacts DEF ChanceCases
    <3>2. chance = Append(m.Chance, errorDrop)
      BY <2>2
    <3> QED
      BY <1>1, <3>1, <3>2
  <2> QED
    BY <2>1, <2>2, EnvFacts
<1> HIDE DEF rate, chance, constant
<1>7. r \in [ErrorRate : 0 .. Scale, Constant : Seq(ConstantCases(List)),
             Chance : Seq(ChanceCases), MsgNo : Nat]
  BY <1>1, <1>3, <1>4, <1>6
<1>8. rateIsSet(env) => rate = env.rate.to
  BY <1>1 DEF rate
<1> QED
  BY <1>2, <1>3, <1>5, <1>6, <1>7, <1>8 DEF MgrInv, ReadyInv

\* What becomes of a message, by what the manager is made of.
LEMMA VerdictAsConfigured ==
  ASSUME EnvInv, NEW m, MgrInv(m), ReadyInv(m), NEW n, NEW randNum,
         NEW pick \in 1 .. Max({1, Len(m.Chance)})
  PROVE  /\ Listed => (processEvents(m, n, randNum, pick) = Dropped <=> n \in List)
         /\ ~Listed /\ ~Flips =>
              /\ processEvents(m, n, randNum, pick) = Dropped <=> randNum <= Rate
              /\ processEvents(m, n, randNum, pick) \in {Same, Dropped}
         /\ ~Listed /\ Flips =>
              /\ processEvents(m, n, randNum, pick) # Same <=> randNum <= Rate
              /\ processEvents(m, n, randNum, pick) \in {Same, Changed, Dropped}
<1> DEFINE verdict == processEvents(m, n, randNum, pick)
           constant == runMsgEvents(m.Constant, n)
           hit == m.Chance # <<>> /\ randNum <= Rate
<1>1. /\ m.Constant \in Seq(ConstantCases(List)) /\ m.Chance \in Seq(ChanceCases)
      /\ m.ErrorRate = Rate
  BY DEF MgrInv, ReadyInv
<1>2. constant = IF n \in List /\ \E i \in DOMAIN m.Constant : m.Constant[i] = DropSpecific(List)
                 THEN Dropped ELSE Same
  BY <1>1, ConstantVerdict
<1>3. constant = IF n \in List THEN Dropped ELSE Same
  BY <1>2, EnvFacts DEF MgrInv
<1>4. m.Chance # <<>> => m.Chance[pick] \in ChanceCases
  BY <1>1, PickIsACase
<1> HIDE DEF constant
<1>5. verdict = IF constant = Dropped \/ (hit /\ run(m.Chance[pick], n) = Dropped) THEN Dropped
                ELSE IF hit THEN run(m.Chance[pick], n) ELSE constant
  BY <1>1, <1>3 DEF processEvents, Same, Dropped, constant
<1> HIDE DEF verdict
<1>6. ASSUME Listed PROVE verdict = Dropped <=> n \in List
  <2>1. hit => run(m.Chance[pick], n) = Changed
    BY <1>4, <1>6, ChanceVerdict DEF ChanceCases
  <2> QED
    BY <1>3, <1>5, <2>1 DEF Changed, Dropped, Same
<1>7. ASSUME ~Listed PROVE constant = Same /\ (hit <=> randNum <= Rate)
  BY <1>3, <1>7, EnvFacts DEF ReadyInv
<1>8. ASSUME ~Listed, ~Flips
      PROVE  (verdict = Dropped <=> randNum <= Rate) /\ verdict \in {Same, Dropped}
  <2>1. hit => run(m.Chance[pick], n) = Dropped
    BY <1>4, <1>8, ChanceVerdict DEF ChanceCases
  <2> QED
    BY <1>5, <1>7, <1>8, <2>1 DEF Dropped, Same
<1>9. ASSUME ~Listed, Flips
      PROVE  (verdict # Same <=> randNum <= Rate) /\ verdict \in {Same, Changed, Dropped}
  <2>1. hit => run(m.Chance[pick], n) \in {Dropped, Changed}
    BY <1>4, <1>9, ChanceVerdict DEF ChanceCases
  <2> QED
    BY <1>5, <1>7, <1>9, <2>1 DEF Changed, Dropped, Same
<1> QED
  BY <1>6, <1>8, <1>9 DEF verdict

LEMMA ClearMeansNeither == Clear => ~Listed /\ ~Flips
<1>1. Unset.set = FALSE
  BY DEF Unset
<1> QED
  BY <1>1 DEF Clear, Listed, Flips

\* The managers in the next state, of which only p's is new.
LEMMA OneManager ==
  ASSUME EnvInv, ProcsInv, UNCHANGED <<env, error_rate>>, NEW p \in Procs, NEW m, MgrInv(m),
         mgr' = [mgr EXCEPT ![p] = m], NEW s \in {"free", "LOADED", "READY"},
         pc' = [pc EXCEPT ![p] = s], s = "READY" => ReadyInv(m)
  PROVE  EnvInv' /\ ProcsInv'
<1>1. EnvInv' /\ List' = List /\ Listed' = Listed /\ Flips' = Flips /\ Rate' = Rate
      /\ ChanceCases' = ChanceCases
  BY DEF EnvInv, List, Listed, Flips, Rate, ChanceCases
<1>2. ASSUME NEW q \in Procs
      PROVE  MgrInv(mgr[q])' /\ (pc'[q] = "READY" => ReadyInv(mgr[q])')
  <2>1. CASE q = p
    <3>1. mgr'[q] = m /\ pc'[q] = s
      BY <2>1 DEF ProcsInv
    <3> QED
      BY <1>1, <3>1 DEF MgrInv, ReadyInv
  <2>2. CASE q # p
    <3>1. mgr'[q] = mgr[q] /\ pc'[q] = pc[q]
      BY <2>2 DEF ProcsInv
    <3>2. MgrInv(mgr[q]) /\ (pc[q] = "READY" => ReadyInv(mgr[q]))
      BY DEF ProcsInv
    <3> QED
      BY <1>1, <3>1, <3>2 DEF MgrInv, ReadyInv
  <2> QED
    BY <2>1, <2>2
<1>3. pc' \in [Procs -> {"free", "LOADED", "READY"}] /\ DOMAIN mgr' = Procs
  BY DEF ProcsInv
<1> QED
  BY <1>1, <1>2, <1>3 DEF ProcsInv

LEMMA InitHolds == Init => IInv
<1> SUFFICES ASSUME Init PROVE IInv
  OBVIOUS
<1>1. EnvInv
  BY DEF Init, EnvInv
<1>2. MgrInv(Loaded(env))
  BY <1>1, LoadedKeeps
<1>3. ProcsInv
  BY <1>2 DEF Init, ProcsInv
<1>4. DropsAsConfigured /\ NeverChanged
  BY DEF Init, DropsAsConfigured, NeverChanged
<1> QED
  BY <1>1, <1>3, <1>4 DEF IInv

LEMMA LibraryKeeps ==
  ASSUME IInv, NEW p \in Procs, InitLibrary(p) PROVE IInv'
<1>1. EnvInv /\ ProcsInv
  BY DEF IInv
<1>2. MgrInv(sendErr_init(mgr[p])) /\ ReadyInv(sendErr_init(mgr[p]))
  BY <1>1, InitMakesReady DEF ProcsInv
<1>3. mgr' = [mgr EXCEPT ![p] = sendErr_init(mgr[p])] /\ pc' = [pc EXCEPT ![p] = "READY"]
      /\ UNCHANGED <<env, error_rate>> /\ last' = NoMessage
  BY DEF InitLibrary
<1>4. EnvInv' /\ ProcsInv'
  BY <1>1, <1>2, <1>3, OneManager
<1> QED
  BY <1>3, <1>4 DEF IInv, DropsAsConfigured, NeverChanged, NoMessage

LEMMA ForkKeeps ==
  ASSUME IInv, NEW p \in Procs, NEW child \in Procs, fork(p, child) PROVE IInv'
<1>1. EnvInv /\ ProcsInv
  BY DEF IInv
<1>2. MgrInv(mgr[p])
  BY <1>1 DEF ProcsInv
<1>3. mgr' = [mgr EXCEPT ![child] = mgr[p]] /\ pc' = [pc EXCEPT ![child] = "LOADED"]
      /\ UNCHANGED <<env, error_rate>> /\ last' = NoMessage
  BY DEF fork
<1>4. EnvInv' /\ ProcsInv'
  BY <1>1, <1>2, <1>3, OneManager
<1> QED
  BY <1>3, <1>4 DEF IInv, DropsAsConfigured, NeverChanged, NoMessage

LEMMA SendKeeps ==
  ASSUME IInv, NEW p \in Procs, sendto_Err(p) PROVE IInv'
<1> DEFINE m == mgr[p]
           n == m.MsgNo + 1
<1>1. EnvInv /\ ProcsInv /\ pc[p] = "READY" /\ UNCHANGED <<env, error_rate, pc>>
  BY DEF IInv, sendto_Err
<1>2. MgrInv(m) /\ ReadyInv(m)
  BY <1>1 DEF ProcsInv
<1>3. EnvInv' /\ ProcsInv'
  <2>1. mgr' = [mgr EXCEPT ![p] = [m EXCEPT !.MsgNo = n]]
    BY DEF sendto_Err
  <2>2. MgrInv([m EXCEPT !.MsgNo = n]) /\ ReadyInv([m EXCEPT !.MsgNo = n])
    <3> DEFINE r == [m EXCEPT !.MsgNo = n]
               Managers == [ErrorRate : 0 .. Scale, Constant : Seq(ConstantCases(List)),
                            Chance : Seq(ChanceCases), MsgNo : Nat]
    <3>1. m \in Managers
      BY <1>2 DEF MgrInv
    <3>2. r \in Managers
      BY <3>1
    <3>3. r.ErrorRate = m.ErrorRate /\ r.Constant = m.Constant /\ r.Chance = m.Chance
      BY <3>1
    <3> HIDE DEF r, m
    <3>4. MgrInv(r) /\ ReadyInv(r)
      BY <1>2, <3>2, <3>3 DEF MgrInv, ReadyInv
    <3> QED
      BY <3>4 DEF r
  <2>3. pc' = [pc EXCEPT ![p] = "READY"]
    BY <1>1 DEF ProcsInv
  <2> QED
    BY <1>1, <2>1, <2>2, <2>3, OneManager
<1>4. PICK randNum \in 0 .. Scale - 1, pick \in 1 .. Max({1, Len(m.Chance)}) :
        last' = [msgNo |-> n, randNum |-> randNum, verdict |-> processEvents(m, n, randNum, pick)]
  BY DEF sendto_Err
<1> DEFINE verdict == processEvents(m, n, randNum, pick)
<1>5. /\ Listed => (verdict = Dropped <=> n \in List)
      /\ ~Listed /\ ~Flips => (verdict = Dropped <=> randNum <= Rate) /\ verdict \in {Same, Dropped}
      /\ ~Listed /\ Flips => /\ verdict # Same <=> randNum <= Rate
                            /\ verdict \in {Same, Changed, Dropped}
  BY <1>1, <1>2, VerdictAsConfigured
<1>6. last'.msgNo = n /\ last'.randNum = randNum /\ last'.verdict = verdict
  BY <1>4
<1> HIDE DEF verdict, n, m
<1>7. Listed' = Listed /\ Flips' = Flips /\ Rate' = Rate /\ Clear' = Clear
      /\ parsed(env.drop.to)' = parsed(env.drop.to)
  BY <1>1 DEF Listed, Flips, Rate, Clear
<1>8. Listed => List = parsed(env.drop.to)
  BY <1>1, EnvFacts
<1>9. DropsAsConfigured'
  BY <1>5, <1>6, <1>7, <1>8 DEF DropsAsConfigured, Same, Dropped
<1>10. NeverChanged'
  <2>1. Clear => last'.verdict \in {Same, Dropped}
    BY <1>5, <1>6, ClearMeansNeither
  <2>2. UDP!processEvents = {"intact", "dropped"}
    BY DEF UDP!processEvents, UDP!ErrorCases, UDP!errorDrop
  <2> QED
    BY <1>7, <2>1, <2>2 DEF NeverChanged, Same, Dropped
<1> QED
  BY <1>3, <1>9, <1>10 DEF IInv

LEMMA StepKeeps == IInv /\ [Next]_vars => IInv'
<1> SUFFICES ASSUME IInv, [Next]_vars PROVE IInv'
  OBVIOUS
<1>1. CASE UNCHANGED vars
  <2>1. EnvInv' /\ List' = List /\ Listed' = Listed /\ Flips' = Flips /\ Rate' = Rate
        /\ ChanceCases' = ChanceCases
    BY <1>1 DEF vars, IInv, EnvInv, List, Listed, Flips, Rate, ChanceCases
  <2>2. ProcsInv'
    BY <1>1, <2>1 DEF vars, IInv, ProcsInv, MgrInv, ReadyInv
  <2>3. DropsAsConfigured' /\ NeverChanged'
    BY <1>1, <2>1 DEF vars, IInv, DropsAsConfigured, NeverChanged, Clear
  <2> QED
    BY <2>1, <2>2, <2>3 DEF IInv
<1> QED
  BY <1>1, LibraryKeeps, SendKeeps, ForkKeeps DEF Next

LEMMA IInvAlways == Spec => []IInv
BY InitHolds, StepKeeps, PTL DEF Spec

-----------------------------------------------------------------------------
\* For every environment and error rate and however often the library was
\* copied by fork and initialised again, a message is dropped as the settings
\* say (PacketManager::processEvents, setUserMode_ErrDrop, setUserMode_ErrRate).
THEOREM SendErrDropsAsConfigured == Spec => []DropsAsConfigured
BY IInvAlways, PTL DEF IInv

\* Without overrides no message is ever changed: it is dropped or sent as it
\* is, which is all Datagrams allows (setUserMode_ErrFlip with FLIP_OFF).
THEOREM SendErrNeverChanged == Spec => []NeverChanged
BY IInvAlways, PTL DEF IInv
=============================================================================
