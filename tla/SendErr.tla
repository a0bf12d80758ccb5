---- MODULE SendErr ----
(***************************************************************************)
(* libcpe464, which decides what happens to each datagram that is sent.    *)
(* Its state is one PacketManager per process, filled before main runs     *)
(* from the environment (SettingsManager), then by sendErr_init; fork      *)
(* copies it, and the server's child calls sendErr_init once more.         *)
(*   pc[p]  free, LOADED (before sendErr_init), READY (it sends and forks) *)
(* Root stands for rcopy, which sends and never forks, for the main        *)
(* server, which forks, and for a child back in main's loop: it does both. *)
(***************************************************************************)
EXTENDS Integers, Sequences, SequencesExt

CONSTANTS
  Procs, Root,    \* process numbers
  Scale,          \* drand48 is one of 0 .. Scale - 1, a rate one of 0 .. Scale
  MaxMsg,         \* a bound on m_MsgNo
  ListSettings,   \* values of CPE464_OVERRIDE_ERR_DROP and _FLIP: sequences of
                  \* tokens, each a number or Bad, which no number starts with
  RateSettings,   \* values of CPE464_OVERRIDE_ERR_RATE
  ErrorRates      \* error-rate arguments

Bad == -99
Unset == [set |-> FALSE]
Setting(values) == {Unset} \cup [set : {TRUE}, to : values]

ASSUME SendErrAssumption ==
  /\ Root \in Procs
  /\ Scale \in Nat \ {0}
  /\ RateSettings \subseteq (0 .. Scale) \cup {Bad}
  /\ ErrorRates \subseteq 0 .. Scale

VARIABLES
  env,         \* the environment of all the processes
  error_rate,  \* their error-rate argument
  pc, mgr,     \* mgr[p] is p's PacketManager
  last         \* the message sent last: its number, the random number, the verdict

vars == <<env, error_rate, pc, mgr, last>>

-----------------------------------------------------------------------------
(* Error cases: what run returns for message n.                            *)

infoSeqNo     == [kind |-> "info", all |-> FALSE, list |-> {}]
errorFlipBits == [kind |-> "flip", all |-> FALSE, list |-> {}]
errorDrop     == [kind |-> "drop", all |-> TRUE, list |-> {}]
DropSpecific(list) == [kind |-> "drop", all |-> FALSE, list |-> list]

Same    == 0
Changed == 1
Dropped == 2

run(case, n) ==
  CASE case.kind = "flip" -> Changed
    [] case.kind = "drop" /\ (case.all \/ n \in case.list) -> Dropped
    [] OTHER -> Same

-----------------------------------------------------------------------------
(* SettingsManager.                                                        *)

\* parser2ListLong stops at the first bad token and reports no error;
\* parserLong2Uint32 leaves out what is negative.
parsed(tokens) ==
  LET stop == SelectInSeq(tokens, LAMBDA tok : tok = Bad)
  IN  {tokens[i] : i \in {j \in 1 .. (IF stop = 0 THEN Len(tokens) ELSE stop - 1) :
                            tokens[j] >= 0}}

\* A rate that is no number counts as not given; a list always counts.
rateIsSet(e) == e.rate.set /\ e.rate # [set |-> TRUE, to |-> Bad]

\* The constructors: no list means a random drop or flip; a list of messages to
\* flip is not implemented.
Loaded(e) ==
  [ErrorRate |-> IF rateIsSet(e) THEN e.rate.to ELSE 0,
   Constant  |-> IF e.drop.set /\ parsed(e.drop.to) # {}
                 THEN <<DropSpecific(parsed(e.drop.to))>> ELSE <<>>,
   Chance    |-> (IF e.drop.set /\ parsed(e.drop.to) = {} THEN <<errorDrop>> ELSE <<>>)
                   \o (IF e.flip.set /\ parsed(e.flip.to) = {} THEN <<errorFlipBits>> ELSE <<>>),
   MsgNo     |-> 0]

\* Mutant: the argument replaces the override.
setUserMode_ErrRate_arg(m, rate) == [m EXCEPT !.ErrorRate = rate]

setUserMode_ErrRate(m, rate) ==
  IF rateIsSet(env) THEN m ELSE [m EXCEPT !.ErrorRate = rate]

setUserMode_ErrDrop(m, isEnabled) ==
  IF env.drop.set \/ ~isEnabled THEN m ELSE [m EXCEPT !.Chance = Append(@, errorDrop)]

\* Mutant: the flag is read the wrong way round.
setUserMode_ErrFlip_not(m, isEnabled) ==
  IF env.flip.set \/ isEnabled THEN m ELSE [m EXCEPT !.Chance = Append(@, errorFlipBits)]

setUserMode_ErrFlip(m, isEnabled) ==
  IF env.flip.set \/ ~isEnabled THEN m ELSE [m EXCEPT !.Chance = Append(@, errorFlipBits)]

\* With DROP_ON and FLIP_OFF, as both programs call it.
sendErr_init(m) ==
  LET counting == [m EXCEPT !.Constant = Append(@, infoSeqNo)]
  IN  setUserMode_ErrFlip(
        setUserMode_ErrDrop(setUserMode_ErrRate(counting, error_rate), TRUE), FALSE)

-----------------------------------------------------------------------------
(* PacketManager.                                                          *)

\* The cases run in turn until one drops the message; none of them fails.
runMsgEvents(cases, n) ==
  LET results == {run(cases[i], n) : i \in DOMAIN cases}
  IN  IF Dropped \in results THEN Dropped ELSE IF Changed \in results THEN Changed ELSE Same

\* randNum is compared with the rate, pick is the random case.
processEvents(m, n, randNum, pick) ==
  LET constant == runMsgEvents(m.Constant, n)
      chance   == IF m.Chance # <<>> /\ randNum <= m.ErrorRate
                  THEN run(m.Chance[pick], n) ELSE Same
  IN  IF Dropped \in {constant, chance} THEN Dropped
      ELSE IF m.Chance # <<>> /\ randNum <= m.ErrorRate THEN chance ELSE constant

NoMessage == [msgNo |-> 0, randNum |-> 0, verdict |-> Same]

Init ==
  /\ env \in [drop : Setting(ListSettings), flip : Setting(ListSettings),
              rate : Setting(RateSettings)]
  /\ error_rate \in ErrorRates
  /\ pc = [p \in Procs |-> IF p = Root THEN "LOADED" ELSE "free"]
  /\ mgr = [p \in Procs |-> Loaded(env)]
  /\ last = NoMessage

InitLibrary(p) ==
  /\ pc[p] = "LOADED"
  /\ pc' = [pc EXCEPT ![p] = "READY"]
  /\ mgr' = [mgr EXCEPT ![p] = sendErr_init(@)]
  /\ last' = NoMessage
  /\ UNCHANGED <<env, error_rate>>

fork(p, child) ==
  /\ pc[p] = "READY" /\ pc[child] = "free"
  /\ pc' = [pc EXCEPT ![child] = "LOADED"]
  /\ mgr' = [mgr EXCEPT ![child] = mgr[p]]
  /\ last' = NoMessage
  /\ UNCHANGED <<env, error_rate>>

sendto_Err(p) ==
  LET n == mgr[p].MsgNo + 1
  IN  /\ pc[p] = "READY"
      /\ n <= MaxMsg
      /\ mgr' = [mgr EXCEPT ![p].MsgNo = n]
      /\ \E randNum \in 0 .. Scale - 1, pick \in 1 .. Max({1, Len(mgr[p].Chance)}) :
           last' = [msgNo |-> n, randNum |-> randNum,
                    verdict |-> processEvents(mgr[p], n, randNum, pick)]
      /\ UNCHANGED <<env, error_rate, pc>>

Next == \E p \in Procs :
  \/ InitLibrary(p)
  \/ sendto_Err(p)
  \/ \E child \in Procs : fork(p, child)

Spec == Init /\ [][Next]_vars

-----------------------------------------------------------------------------
(* Properties.                                                             *)

\* The rate that counts.
Rate == IF rateIsSet(env) THEN env.rate.to ELSE error_rate
Listed == env.drop.set /\ parsed(env.drop.to) # {}
Flips  == env.flip.set /\ parsed(env.flip.to) = {}

\* Whichever process sends, however often the library was initialised and
\* forked before: with a list in the environment exactly the messages it names
\* are dropped; without one no message is dropped or changed whose random number
\* is above the rate, and every other one is dropped, or dropped or changed when
\* flips are asked for.  The last is not asked of a rate of 0, for which "0 means
\* no errors" (cpe464.h:82) and the code, which compares with <=, differ.
DropsAsConfigured ==
  last # NoMessage =>
    IF Listed
    THEN last.verdict = Dropped <=> last.msgNo \in parsed(env.drop.to)
    ELSE /\ last.verdict # Same => last.randNum <= Rate
         /\ last.randNum <= Rate /\ Rate # 0 =>
              last.verdict \in IF Flips THEN {Dropped, Changed} ELSE {Dropped}

Clear == env = [drop |-> Unset, flip |-> Unset, rate |-> Unset]

UDP == INSTANCE Datagrams WITH ChannelCap <- 1, SendMayDrop <- TRUE, SendMayFail <- FALSE

\* Without overrides a message is dropped or sent unchanged, the two verdicts
\* Datagrams has for the other modules: nothing that arrives was changed.
NeverChanged ==
  Clear /\ last # NoMessage =>
    (IF last.verdict = Dropped THEN "dropped"
     ELSE IF last.verdict = Same THEN "intact" ELSE "changed") \in UDP!processEvents
====
