------------------------------ MODULE Session -------------------------------
(***************************************************************************)
(* The filename exchange: rcopy's SEND_FILENAME and FILE_VALID, the main   *)
(* server's loop, and the children it forks, for several rcopies at once.  *)
(* What both sides do once the file is being copied is left open here      *)
(* (Receiver and Sender have it): an rcopy in GET_DATA takes and sends     *)
(* PDUs until it is done, a child in SEND_DATA likewise.                   *)
(*   cpc[r]   SEND_FILENAME    about to send the filename                  *)
(*            AWAIT_TALK_HERE  its poll in doSendFilenameState             *)
(*            FILE_VALID       about to open the output file               *)
(*            AWAIT_ACK        its poll in doFileValidState                *)
(*            GET_DATA, DONE                                               *)
(*   proc[p]  MAIN             main's loop: the main server, and every     *)
(*                             child whose state machine has ended         *)
(*            TALK_HERE        forked, about to send "talk here now"       *)
(*            GET_FILENAME     about to open the source file               *)
(*            AWAIT_ERR_ACK    its poll after the error packet             *)
(*            SEND_DATA, EXITED, and free before it was forked             *)
(***************************************************************************)
EXTENDS FiniteSets, Datagrams

CONSTANTS
  Clients,     \* the rcopies
  Cancelling,  \* those whose filename PDU, behind a shorter PDU, may add up to 0
  Forks,       \* process numbers fork may return: a bound on the children
  SendTries,   \* 9 in doSendFilenameState
  ValidTries,  \* 9 in doFileValidState
  ErrTries     \* 10 in doGetFilenameState

ASSUME SessionAssumption ==
  /\ "none" \notin Clients /\ Cancelling \subseteq Clients
  /\ Forks \subseteq Nat \ {0}
  /\ SendTries \in Nat \ {0} /\ ValidTries \in Nat \ {0} /\ ErrTries \in Nat \ {0}

Main == 0
Procs == {Main} \cup Forks

VARIABLES
  cpc, tries,  \* tries is sends_attempted, then retries
  server,      \* the address rcopy sends to, overwritten by every recvfrom
  proc, parent, peer,
  eretries,    \* retries of doGetFilenameState
  cin, pin,    \* what is under way to each rcopy and to each process
  sigchld,     \* the processes a SIGCHLD is pending for
  requests,    \* filename PDUs each rcopy has sent
  opened       \* the processes whose fopen of the source file worked
(* The last two are in no program: a count and a record of what happened.  *)

clientVars == <<cpc, tries, server, requests>>
procVars == <<proc, parent, peer, eretries, sigchld, opened>>
vars == <<clientVars, procVars, cin, pin>>

\* The flag byte.
ControlFlag  == 5   \* stands for RR and SREJ
FilenameFlag == 8
FileOkFlag   == 9
DataFlag     == 16
FileBadFlag  == 32
TalkHereFlag == 33
Flags == {ControlFlag, FilenameFlag, FileOkFlag, DataFlag, FileBadFlag, TalkHereFlag}

PDU(flag, from) == [flag |-> flag, from |-> from]

Init ==
  /\ cpc = [r \in Clients |-> "SEND_FILENAME"]
  /\ tries = [r \in Clients |-> 0]
  /\ server = [r \in Clients |-> Main]
  /\ requests = [r \in Clients |-> 0]
  /\ proc = [p \in Procs |-> IF p = Main THEN "MAIN" ELSE "free"]
  /\ parent = [p \in Procs |-> -1]
  /\ peer = [p \in Procs |-> "none"]
  /\ eretries = [p \in Procs |-> 0]
  /\ sigchld = {}
  /\ opened = {}
  /\ cin = [r \in Clients |-> EmptyBag]
  /\ pin = [p \in Procs |-> EmptyBag]

-----------------------------------------------------------------------------
(* Datagrams.  One for a socket that was closed is gone.                   *)

ToServer(p, m) ==
  pin' \in {[pin EXCEPT ![p] = q] : q \in
              IF proc[p] \in {"free", "EXITED"} THEN {EmptyBag} ELSE sendtoErr(pin[p], m)}

ToClient(r, m) ==
  cin' \in {[cin EXCEPT ![r] = q] : q \in
              IF cpc[r] = "DONE" THEN {EmptyBag} ELSE sendtoErr(cin[r], m)}

ClientTakes(r, m) == cin' = [cin EXCEPT ![r] = recvfrom(@, m)]
ProcTakes(p, m)   == pin' = [pin EXCEPT ![p] = recvfrom(@, m)]

-----------------------------------------------------------------------------
(* rcopy.  A counter is reset where the loop that counts it is left: it is *)
(* a local variable there.                                                 *)

Goto(r, s) == cpc' = [cpc EXCEPT ![r] = s]

\* The state machine ends and the socket is closed.
Leave(r) == /\ Goto(r, "DONE")
            /\ cin' = [cin EXCEPT ![r] = EmptyBag]
            /\ tries' = [tries EXCEPT ![r] = 0]

SendFilename(r) ==
  /\ cpc[r] = "SEND_FILENAME"
  /\ \/ /\ ToServer(server[r], PDU(FilenameFlag, r))
        /\ requests' = [requests EXCEPT ![r] = @ + 1]
        /\ Goto(r, "AWAIT_TALK_HERE")
        /\ UNCHANGED <<tries, cin>>
     \/ /\ SendMayFail
        /\ Leave(r)
        /\ UNCHANGED <<pin, requests>>
  /\ UNCHANGED <<server, procVars>>

FilenameTimeout(r) ==
  /\ cpc[r] = "AWAIT_TALK_HERE"
  /\ \/ /\ tries[r] + 1 < SendTries
        /\ tries' = [tries EXCEPT ![r] = @ + 1]
        /\ Goto(r, "SEND_FILENAME")
        /\ UNCHANGED cin
     \/ tries[r] + 1 >= SendTries /\ Leave(r)
  /\ UNCHANGED <<server, requests, procVars, pin>>

\* Anything but "talk here now" ends rcopy.
FilenameReply(r, m) ==
  /\ cpc[r] = "AWAIT_TALK_HERE"
  /\ server' = [server EXCEPT ![r] = m.from]
  /\ \/ /\ m.flag = TalkHereFlag
        /\ Goto(r, "FILE_VALID")
        /\ tries' = [tries EXCEPT ![r] = 0]
        /\ ClientTakes(r, m)
     \/ m.flag # TalkHereFlag /\ Leave(r)
  /\ UNCHANGED <<requests, procVars, pin>>

CheckDestFile(r) ==
  /\ cpc[r] = "FILE_VALID"
  /\ \/ Goto(r, "AWAIT_ACK") /\ UNCHANGED <<tries, cin>>
     \/ Leave(r)
  /\ UNCHANGED <<server, requests, procVars, pin>>

\* The last retry goes back to SEND_FILENAME, with server as it is now.
NextTry(r) ==
  IF tries[r] + 1 < ValidTries
  THEN tries' = [tries EXCEPT ![r] = @ + 1] /\ UNCHANGED cpc
  ELSE tries' = [tries EXCEPT ![r] = 0] /\ Goto(r, "SEND_FILENAME")

AckTimeout(r) ==
  /\ cpc[r] = "AWAIT_ACK"
  /\ NextTry(r)
  /\ UNCHANGED <<server, requests, procVars, cin, pin>>

MeansFileOk(m) == m.flag = FileOkFlag

AckReply(r, m) ==
  /\ cpc[r] = "AWAIT_ACK"
  /\ server' = [server EXCEPT ![r] = m.from]
  /\ \/ /\ MeansFileOk(m)
        /\ Goto(r, "GET_DATA")
        /\ tries' = [tries EXCEPT ![r] = 0]
        /\ ClientTakes(r, m)
        /\ UNCHANGED pin
     \/ /\ m.flag = FileBadFlag
        /\ ToServer(m.from, PDU(TalkHereFlag, r)) \/ (SendMayFail /\ UNCHANGED pin)
        /\ Leave(r)
     \/ /\ ~ MeansFileOk(m) /\ m.flag # FileBadFlag
        /\ NextTry(r)
        /\ ClientTakes(r, m)
        /\ UNCHANGED pin
  /\ UNCHANGED <<requests, procVars>>

\* Mutant: GET_DATA overwrites server too.
DataReceive_follows(r, m) ==
  /\ cpc[r] = "GET_DATA"
  /\ ClientTakes(r, m)
  /\ server' = [server EXCEPT ![r] = m.from]
  /\ UNCHANGED <<cpc, tries, requests, procVars, pin>>

\* GET_DATA takes PDUs from anyone and sends control PDUs to server.
DataReceive(r, m) ==
  /\ cpc[r] = "GET_DATA"
  /\ ClientTakes(r, m)
  /\ UNCHANGED <<clientVars, procVars, pin>>

DataReply(r) ==
  /\ cpc[r] = "GET_DATA"
  /\ ToServer(server[r], PDU(ControlFlag, r))
  /\ UNCHANGED <<clientVars, procVars, cin>>

DataOver(r) ==
  /\ cpc[r] = "GET_DATA"
  /\ Leave(r)
  /\ UNCHANGED <<server, requests, procVars, pin>>

ClientNext(r) ==
  \/ SendFilename(r) \/ FilenameTimeout(r) \/ CheckDestFile(r) \/ AckTimeout(r)
  \/ DataReply(r) \/ DataOver(r)
  \/ \E m \in BagToSet(cin[r]) : FilenameReply(r, m) \/ AckReply(r, m) \/ DataReceive(r, m)

-----------------------------------------------------------------------------
(* The main server and its children.                                       *)

Become(p, s) == proc' = [proc EXCEPT ![p] = s]

Free == {q \in Forks : proc[q] = "free"}

\* Mutant: the request stays in the socket.
Consumed_peek(p, m) == UNCHANGED pin

\* recvfrom in main's loop.
Consumed(p, m) == ProcTakes(p, m)

\* The checksum is taken over main's whole buffer.  It is right for a filename
\* PDU; behind a shorter PDU it may be, depending on what the last filename PDU
\* left there (AcceptedIffRestIsZero of FilenamePDU).  A child has main's buffer
\* from fork, and nobody but peer[p] ever sends it a filename PDU.
PassesChecksum(p, m) == m.flag = FilenameFlag \/ peer[p] \in Cancelling

\* main's loop and startFSM up to fork, which may fail.  The flag is not looked at.
Request(p, m) ==
  /\ proc[p] = "MAIN"
  /\ PassesChecksum(p, m)
  /\ Consumed(p, m)
  /\ \/ UNCHANGED <<proc, parent, peer>>
     \/ \E q \in Free :
          /\ \A k \in Free : q <= k
          /\ Become(q, "TALK_HERE")
          /\ parent' = [parent EXCEPT ![q] = p]
          /\ peer' = [peer EXCEPT ![q] = m.from]
  /\ UNCHANGED <<eretries, sigchld, opened, clientVars, cin>>

\* Any other PDU, with a rest behind it that does not add up to 0.
BadChecksum(p, m) ==
  /\ proc[p] = "MAIN"
  /\ m.flag # FilenameFlag
  /\ Consumed(p, m)
  /\ UNCHANGED <<procVars, clientVars, cin>>

\* A send that fails sets the state to DONE, and the next line to GET_FILENAME.
TalkHere(q) ==
  /\ proc[q] = "TALK_HERE"
  /\ ToClient(peer[q], PDU(TalkHereFlag, q)) \/ (SendMayFail /\ UNCHANGED cin)
  /\ Become(q, "GET_FILENAME")
  /\ UNCHANGED <<parent, peer, eretries, sigchld, opened, clientVars, pin>>

fopenWorks(q) == opened' = opened \cup {q}
fopenFails(q) == UNCHANGED opened

\* Mutant: the good answer is sent before the file was opened.
OpenSource_early(q) ==
  /\ proc[q] = "GET_FILENAME"
  /\ \/ ToClient(peer[q], PDU(FileOkFlag, q))
     \/ SendMayFail /\ UNCHANGED cin
  /\ \/ fopenWorks(q) /\ Become(q, "SEND_DATA")
     \/ fopenFails(q) /\ Become(q, "AWAIT_ERR_ACK")
  /\ UNCHANGED <<parent, peer, eretries, sigchld, clientVars, pin>>

\* Mutant: the state is not changed when the good answer was sent.
OpenSource_again(q) ==
  /\ proc[q] = "GET_FILENAME"
  /\ fopenWorks(q)
  /\ ToClient(peer[q], PDU(FileOkFlag, q))
  /\ UNCHANGED <<proc, parent, peer, eretries, sigchld, clientVars, pin>>

\* doGetFilenameState: DONE leads out of startFSM, back into main's loop, where
\* the child's socket has the number the main socket had.
OpenSource(q) ==
  /\ proc[q] = "GET_FILENAME"
  /\ \/ /\ fopenWorks(q)
        /\ ToClient(peer[q], PDU(FileOkFlag, q))
        /\ Become(q, "SEND_DATA")
     \/ /\ fopenFails(q)
        /\ ToClient(peer[q], PDU(FileBadFlag, q))
        /\ Become(q, "AWAIT_ERR_ACK")
     \/ /\ fopenWorks(q) \/ fopenFails(q)
        /\ SendMayFail /\ UNCHANGED cin
        /\ Become(q, "MAIN")
  /\ UNCHANGED <<parent, peer, eretries, sigchld, clientVars, pin>>

ErrAck(q, m) ==
  /\ proc[q] = "AWAIT_ERR_ACK"
  /\ ProcTakes(q, m)
  /\ Become(q, "MAIN")
  /\ eretries' = [eretries EXCEPT ![q] = 0]
  /\ UNCHANGED <<parent, peer, sigchld, opened, clientVars, cin>>

\* Mutant: one poll too many.
ErrTimeout_more(q) ==
  /\ proc[q] = "AWAIT_ERR_ACK"
  /\ eretries' = [eretries EXCEPT ![q] = IF @ < ErrTries THEN @ + 1 ELSE 0]
  /\ IF eretries[q] < ErrTries THEN UNCHANGED proc ELSE Become(q, "MAIN")
  /\ UNCHANGED <<parent, peer, sigchld, opened, clientVars, cin, pin>>

ErrTimeout(q) ==
  /\ proc[q] = "AWAIT_ERR_ACK"
  /\ eretries' = [eretries EXCEPT ![q] = IF @ + 1 < ErrTries THEN @ + 1 ELSE 0]
  /\ IF eretries[q] + 1 < ErrTries THEN UNCHANGED proc ELSE Become(q, "MAIN")
  /\ UNCHANGED <<parent, peer, sigchld, opened, clientVars, cin, pin>>

\* SEND_DATA sends data PDUs and takes PDUs of any flag.
SendData(q) ==
  /\ proc[q] = "SEND_DATA"
  /\ ToClient(peer[q], PDU(DataFlag, q))
  /\ UNCHANGED <<procVars, clientVars, pin>>

TakeControl(q, m) ==
  /\ proc[q] = "SEND_DATA"
  /\ ProcTakes(q, m)
  /\ UNCHANGED <<procVars, clientVars, cin>>

\* The process ends: its socket is closed and its parent is sent a SIGCHLD.
Exit(p) == /\ Become(p, "EXITED")
           /\ pin' = [pin EXCEPT ![p] = EmptyBag]
           /\ sigchld' = (sigchld \ {p}) \cup ({parent[p]} \cap Procs)

\* doSendDataState returns DONE, or the child exits or crashes.
DataEnd(q) ==
  /\ proc[q] = "SEND_DATA"
  /\ \/ Become(q, "MAIN") /\ UNCHANGED <<pin, sigchld>>
     \/ Exit(q)
  /\ UNCHANGED <<parent, peer, eretries, opened, clientVars, cin>>

\* handleZombies.  A poll the signal interrupts fails, and pollCall exits; a
\* signal between two polls, or for a process that is gone, does no harm.
Sigchld(p) ==
  /\ p \in sigchld
  /\ \/ sigchld' = sigchld \ {p} /\ UNCHANGED <<proc, pin>>
     \/ proc[p] = "MAIN" /\ Exit(p)
  /\ UNCHANGED <<parent, peer, eretries, opened, clientVars, cin>>

ProcNext(p) ==
  \/ TalkHere(p) \/ OpenSource(p) \/ ErrTimeout(p) \/ SendData(p) \/ DataEnd(p)
  \/ Sigchld(p)
  \/ \E m \in BagToSet(pin[p]) : \/ Request(p, m) \/ BadChecksum(p, m)
                                 \/ ErrAck(p, m) \/ TakeControl(p, m)

-----------------------------------------------------------------------------
\* Nobody is copying and nothing is left to read: the servers poll for ever.
Idle == /\ \A r \in Clients : cpc[r] = "DONE"
        /\ \A p \in Procs : proc[p] \in {"free", "MAIN", "EXITED"} /\ pin[p] = EmptyBag
        /\ sigchld = {}
        /\ UNCHANGED vars

Next == \/ \E r \in Clients : ClientNext(r)
        \/ \E p \in Procs : ProcNext(p)
        \/ Idle

Spec == Init /\ [][Next]_vars

-----------------------------------------------------------------------------
(* Properties.                                                             *)

ClientTypeOK ==
  /\ cpc \in [Clients -> {"SEND_FILENAME", "AWAIT_TALK_HERE", "FILE_VALID", "AWAIT_ACK",
                          "GET_DATA", "DONE"}]
  /\ tries \in [Clients -> 0 .. SendTries - 1 \cup 0 .. ValidTries - 1]
  /\ server \in [Clients -> Procs]
  /\ requests \in [Clients -> Nat]

ProcTypeOK ==
  /\ proc \in [Procs -> {"free", "MAIN", "TALK_HERE", "GET_FILENAME", "AWAIT_ERR_ACK",
                         "SEND_DATA", "EXITED"}]
  /\ parent \in [Procs -> Procs \cup {-1}]
  /\ peer \in [Procs -> Clients \cup {"none"}]
  /\ eretries \in [Procs -> 0 .. ErrTries - 1]
  /\ sigchld \subseteq Procs /\ opened \subseteq Forks

CinTypeOK ==
  /\ DOMAIN cin = Clients
  /\ \A r \in Clients : /\ IsABag(cin[r])
                        /\ BagToSet(cin[r]) \subseteq [flag : Flags, from : Procs]
                        /\ cpc[r] = "DONE" => cin[r] = EmptyBag

PinTypeOK ==
  /\ DOMAIN pin = Procs
  /\ \A p \in Procs : /\ IsABag(pin[p])
                      /\ BagToSet(pin[p]) \subseteq [flag : Flags, from : Clients]
                      /\ proc[p] \in {"free", "EXITED"} => pin[p] = EmptyBag

\* Every variable has its type; the three counters stay within their loops'
\* bounds, and nothing is under way to a socket that was closed.
SessionTypeOK == ClientTypeOK /\ ProcTypeOK /\ CinTypeOK /\ PinTypeOK

\* rcopy takes the sender of the last PDU it read for its server.  Whatever was
\* late, lost or sent twice, once it is in GET_DATA that is a process forked for
\* this rcopy, and one that opened the source file.
ServedByOpener ==
  \A r \in Clients : cpc[r] = "GET_DATA" =>
    peer[server[r]] = r /\ server[r] \in opened

Children(r) == {p \in Procs : peer[p] = r}

\* The filename PDUs of an rcopy that nobody has read yet, numbered per process.
Unread(r) == UNION {{p} \X (1 .. Copies(PDU(FilenameFlag, r), pin[p])) : p \in Procs}

\* main forks for every filename PDU it reads, the same rcopy's included, and for
\* PDUs it takes for one.  Where no rest behind a short PDU adds up to 0, the
\* children of an rcopy and its PDUs nobody has read yet are at most the PDUs
\* it sent: no request is served twice, whatever other rcopies make main accept.
ForkPerRequest ==
  \A r \in Clients \ Cancelling :
    Cardinality(Children(r)) + Cardinality(Unread(r)) <= requests[r]

\* GET_DATA does not look at flags, so a "talk here now" or an answer that comes
\* late is handled like data.  An rcopy that sent its filename once never gets
\* one there; every other filename PDU may bring a second child's, and so may a
\* control PDU that is taken for one.
OneRequestOneChild ==
  \A r \in Clients \ Cancelling : cpc[r] = "GET_DATA" /\ requests[r] = 1 =>
    \A m \in BagToSet(cin[r]) : m.flag = DataFlag

Serves == [p \in Forks |-> peer[p]]
Source == [r \in Clients |-> IF cpc[r] = "GET_DATA" THEN {server[r]} ELSE {}]
Left   == {r \in Clients : cpc[r] = "DONE"}

Service == INSTANCE Dispatch WITH
  Processes <- Forks, Nobody <- "none", Unlimited <- Cancelling,
  asked <- requests, serves <- Serves, ready <- opened, source <- Source, left <- Left

\* The exchange implements Dispatch: however PDUs are lost, late or sent twice, a
\* child never changes its rcopy, and an rcopy in GET_DATA never changes its
\* child (main, startFSM, doGetFilenameState, doFileValidState).
ImplementsDispatch == Service!Spec

\* README:81-82: rcopy sends its filename so many times, and then is done.  Each
\* return from FILE_VALID starts the count again, and the two states can send
\* rcopy to one another for as long as children answer "talk here now" and their
\* next PDU is lost.
TriesEnd == \A r \in Clients : requests[r] <= SendTries

\* README:34: the server "can only terminate with ^c".  A SIGCHLD that comes
\* while the main server polls makes pollCall exit.
ServerStays == proc[Main] = "MAIN"
=============================================================================
