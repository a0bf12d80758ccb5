------------------------------ MODULE Receiver ------------------------------
(***************************************************************************)
(* doGetDataState of rcopy, with the data state machine IN_ORDER,          *)
(* BUFFERING, FLUSHING.  rpc is the poll rcopy is blocked in:              *)
(*   OPEN      about to open the output file                               *)
(*   POLL      doGetDataState's own loop                                   *)
(*   RR_RETRY  doInOrderState, after a send of the RR failed               *)
(*   SREJ_WAIT doBufferState, after an SREJ                                *)
(*   DONE      GET_DATA is over          CRASHED  the process is dead      *)
(* subState may also be DONE: doInOrderState and doBufferState return that *)
(* value of the outer machine, and no case of handleDataPacket is for it.  *)
(***************************************************************************)
EXTENDS Conversation, Window, Sequences

CONSTANTS RrRetries,   \* 9 in doInOrderState
          SrejRetries  \* 10 in doBufferState

ASSUME RetryAssumption == RrRetries \in Nat \ {0} /\ SrejRetries \in Nat \ {0}

VARIABLES
  rpc, subState, rbuf,
  rr_seq_num, srej_seq_num,  \* header sequence numbers of rcopy's PDUs
  retries,      \* of the send loop rcopy is in
  eofPending,   \* the packet being handled has the EOF flag
  attempts,     \* timeouts of doGetDataState's own poll
  output,       \* what was written to the output file, chunk by chunk
  junk,         \* what malloc left in rbuf's control packet
  srejs         \* history, in no program: SREJs made for the packet expected

counters == <<rr_seq_num, srej_seq_num, srejs, retries, eofPending, attempts>>
rcvVars == <<rpc, subState, rbuf, counters, output, junk>>

RcvStates == {"OPEN", "POLL", "RR_RETRY", "SREJ_WAIT", "DONE", "CRASHED"}
SubStates == {"IN_ORDER", "BUFFERING", "FLUSHING", "DONE"}

\* A write to the output file: the chunk it stands for, and whether its bytes
\* are that packet's payload or a stretch of rcopy's memory (see Flushed).
Chunk == [seq : Int, bytes : {"payload", "memory"}]

RcvEnded == rpc \in {"DONE", "CRASHED"}

RcvInit == /\ rpc = "OPEN"
           /\ subState = "IN_ORDER"
           /\ junk \in Junk
           /\ rbuf = initReceiverBuffer(junk)
           /\ rr_seq_num = 0
           /\ srej_seq_num = 0
           /\ srejs = 0
           /\ retries = 0
           /\ eofPending = FALSE
           /\ attempts = 0
           /\ output = <<>>

\* Opening the output file and allocating the buffer; DONE if one fails.
OpenOutput == /\ rpc = "OPEN"
              /\ rpc' \in {"POLL", "DONE"}
              /\ UNCHANGED <<subState, rbuf, counters, output, netVars>>

-----------------------------------------------------------------------------
(* Receiving.  A PDU is handled first; its EOF flag is looked at after.    *)

Receive(p) == /\ rpc = "POLL"
              /\ data' = recvfrom(data, p)

\* Mutant: the EOF flag is not looked at.
Return_deaf(eof) == rpc' = "POLL"

Return(eof) == rpc' = IF eof THEN "DONE" ELSE "POLL"

\* sendtoErr whose failure is at most reported.
SendCtl(c) == \/ ctl' \in sendtoErr(ctl, c)
              \/ SendMayFail /\ UNCHANGED ctl

\* The poll between two sends: a PDU that is not the expected one is thrown
\* away, and a timeout takes nothing.
IsExpected(p) == p.seq = rbuf.expected /\ p.flag = DATA

PolledNothingUseful ==
  data' \in {data} \cup
            {recvfrom(data, p) : p \in {q \in BagToSet(data) : ~ IsExpected(q)}}

\* resendLastControl.  Until a packet was accepted in order hasLastControl and
\* the bytes behind it are whatever malloc returned: nothing is sent, or junk
\* is (an RR or an SREJ, perhaps), or sendtoErr is given length 0 and exits.
RecvOld(p) ==
  /\ Receive(p)
  /\ p.seq < rbuf.expected
  /\ \/ /\ rbuf.hasLastControl = "set"
        /\ SendCtl(rbuf.lastControlPacket)
        /\ Return(p.flag = EOF)
     \/ /\ rbuf.hasLastControl = "uninitialised"
        /\ ctl' \in {ctl} \cup sendtoErr(ctl, junk)
        /\ Return(p.flag = EOF)
     \/ /\ rbuf.hasLastControl = "uninitialised"
        /\ rpc' = "CRASHED"
        /\ UNCHANGED ctl
  /\ UNCHANGED <<subState, rbuf, counters, output>>

-----------------------------------------------------------------------------
(* doInOrderState.                                                         *)

\* writePayloadToFile writes buffer_size bytes behind the header, whatever
\* arrived: neither the flag nor the length is looked at.
writePayloadToFile(p) == output' = Append(output, [seq |-> p.seq, bytes |-> "payload"])

\* Mutant: expected is not raised.
Accept_stays(rb) == [rb EXCEPT
                       !.hasLastControl = "set",
                       !.lastControlPacket = makeRRPacket(rr_seq_num, rb.expected + 1)]

Accept(rb) == [rb EXCEPT
                 !.expected = @ + 1,
                 !.hasLastControl = "set",
                 !.lastControlPacket = makeRRPacket(rr_seq_num, rb.expected + 1)]

\* A send that works leaves the loop, and what follows the loop returns DONE.
RecvInOrder(p) ==
  /\ Receive(p)
  /\ subState = "IN_ORDER" /\ p.seq = rbuf.expected
  /\ writePayloadToFile(p)
  /\ rbuf' = Accept(rbuf)
  /\ srejs' = 0
  /\ \/ /\ ctl' \in sendtoErr(ctl, rbuf'.lastControlPacket)
        /\ subState' = "DONE"
        /\ Return(p.flag = EOF)
        /\ UNCHANGED <<rr_seq_num, retries, eofPending>>
     \/ /\ SendMayFail
        /\ rpc' = "RR_RETRY"
        /\ retries' = 1
        /\ rr_seq_num' = rr_seq_num + 1
        /\ eofPending' = (p.flag = EOF)
        /\ UNCHANGED <<subState, ctl>>
  /\ UNCHANGED <<srej_seq_num, attempts>>

\* The next packet came between two sends: it stops them, and is thrown away.
RrAnswered(p) ==
  /\ rpc = "RR_RETRY"
  /\ IsExpected(p)
  /\ data' = recvfrom(data, p)
  /\ subState' = "IN_ORDER"
  /\ Return(eofPending)
  /\ UNCHANGED <<rbuf, counters, output, ctl>>

\* The next send: the PDU is not made anew, it keeps its first header.
RrRetry ==
  /\ rpc = "RR_RETRY"
  /\ PolledNothingUseful
  /\ \/ /\ retries < RrRetries
        /\ ctl' \in sendtoErr(ctl, rbuf.lastControlPacket)
        /\ subState' = "DONE"
        /\ Return(eofPending)
        /\ UNCHANGED <<retries, rr_seq_num>>
     \/ /\ retries < RrRetries
        /\ SendMayFail
        /\ retries' = retries + 1
        /\ rr_seq_num' = rr_seq_num + 1
        /\ UNCHANGED <<rpc, subState, ctl>>
     \/ /\ retries >= RrRetries
        /\ subState' = "DONE"
        /\ Return(eofPending)
        /\ UNCHANGED <<retries, rr_seq_num, ctl>>
  /\ UNCHANGED <<rbuf, srej_seq_num, srejs, eofPending, attempts, output>>

\* A packet from beyond a gap is dropped; only the state remembers it.
RecvGap(p) ==
  /\ Receive(p)
  /\ subState = "IN_ORDER" /\ p.seq > rbuf.expected
  /\ subState' = "BUFFERING"
  /\ Return(p.flag = EOF)
  /\ UNCHANGED <<rbuf, counters, output, ctl>>

-----------------------------------------------------------------------------
(* doBufferState.                                                          *)

Store(rb, p) == raiseHighest(insertReceiverPacket(rb, p.seq), p.seq)

SendSREJ == /\ SendCtl(makeSREJPacket(srej_seq_num, rbuf.expected))
            /\ srej_seq_num' = srej_seq_num + 1
            /\ srejs' = srejs + 1

RecvBuffering(p) ==
  /\ Receive(p)
  /\ subState = "BUFFERING" /\ p.seq >= rbuf.expected
  /\ rbuf' = Store(rbuf, p)
  /\ SendSREJ
  /\ rpc' = "SREJ_WAIT"
  /\ retries' = 0
  /\ eofPending' = (p.flag = EOF)
  /\ UNCHANGED <<subState, rr_seq_num, attempts, output>>

\* The missing packet ends the wait, and is thrown away.
SrejAnswered(p) ==
  /\ rpc = "SREJ_WAIT"
  /\ IsExpected(p)
  /\ data' = recvfrom(data, p)
  /\ subState' = "FLUSHING"
  /\ Return(eofPending)
  /\ UNCHANGED <<rbuf, counters, output, ctl>>

\* Mutant: one SREJ more.
MoreSREJ_more(n) == n <= SrejRetries

MoreSREJ(n) == n < SrejRetries

SrejRetry ==
  /\ rpc = "SREJ_WAIT"
  /\ PolledNothingUseful
  /\ retries' = retries + 1
  /\ \/ /\ MoreSREJ(retries')
        /\ SendSREJ
        /\ UNCHANGED <<rpc, subState>>
     \/ /\ ~ MoreSREJ(retries')
        /\ subState' = "DONE"
        /\ Return(eofPending)
        /\ UNCHANGED <<srej_seq_num, srejs, ctl>>
  /\ UNCHANGED <<rbuf, rr_seq_num, eofPending, attempts, output>>

-----------------------------------------------------------------------------
(* doFlushingState: reached by the packet after the missing one, which is  *)
(* only the trigger.                                                       *)

\* insertReceiverPacket was told the size of a pointer, and took 7 off it;
\* flushBuffer takes off 7 more and gives fwrite a negative number, so a huge
\* size_t.  stdio writes nothing while its own buffer is empty (lost counts
\* those), and otherwise as much memory from the packet's first payload byte on
\* as that buffer has room for: other slots and the heap behind them, too.
Flushed(rb, n, lost) ==
  [j \in 1 .. n - lost |-> [seq |-> rb.expected + lost + j, bytes |-> "memory"]]

RecvFlushing(p) ==
  /\ Receive(p)
  /\ subState = "FLUSHING" /\ p.seq >= rbuf.expected
  /\ \E n \in 0 .. WindowSize :
       /\ flushes(rbuf, n)
       /\ rbuf' = flushBuffer(rbuf, n)
       /\ \E lost \in 0 .. n : output' = output \o Flushed(rbuf, n, lost)
  /\ subState' = IF rbuf'.expected > rbuf'.highest THEN "IN_ORDER" ELSE "BUFFERING"
  /\ srejs' = 0
  /\ Return(p.flag = EOF)
  /\ UNCHANGED <<rr_seq_num, srej_seq_num, retries, eofPending, attempts, ctl>>

-----------------------------------------------------------------------------
\* handleDataPacket has no case for DONE.
RecvIgnored(p) ==
  /\ Receive(p)
  /\ subState = "DONE" /\ p.seq >= rbuf.expected
  /\ Return(p.flag = EOF)
  /\ UNCHANGED <<subState, rbuf, counters, output, ctl>>

\* The first timeout of doGetDataState's poll sets doneReceiving; a recvfrom
\* that fails returns DONE too.
RecvTimeout ==
  /\ rpc = "POLL"
  /\ attempts' = attempts + 1
  /\ rpc' = "DONE"
  /\ UNCHANGED <<subState, rbuf, rr_seq_num, srej_seq_num, srejs, retries,
                 eofPending, output, netVars>>

\* recvfrom may put 1407 bytes into a buffer of 7 + buffer_size.
RecvOverrun(p) ==
  /\ Receive(p)
  /\ p.len > BufferSize /\ BufferSize < MAX_PAYLOAD_LEN
  /\ rpc' = "CRASHED"
  /\ UNCHANGED <<subState, rbuf, counters, output, ctl>>

RcvNext == /\ \/ OpenOutput
              \/ \E p \in BagToSet(data) :
                   \/ RecvOld(p)
                   \/ RecvInOrder(p) \/ RrAnswered(p) \/ RecvGap(p)
                   \/ RecvBuffering(p) \/ SrejAnswered(p)
                   \/ RecvFlushing(p)
                   \/ RecvIgnored(p)
                   \/ RecvOverrun(p)
              \/ RrRetry \/ SrejRetry
              \/ RecvTimeout
           /\ UNCHANGED junk

-----------------------------------------------------------------------------
(* Safety of rcopy by itself, whatever arrives.                            *)

\* rcopy writes chunks to the output file in ascending order, none twice, and
\* all of them below the packet it expects next, however PDUs are reordered,
\* repeated or lost (doInOrderState, doFlushingState, flushBuffer).
OutputOrdered ==
  /\ \A i, j \in 1 .. Len(output) : i < j => output[i].seq < output[j].seq
  /\ \A i \in 1 .. Len(output) : 0 <= output[i].seq /\ output[i].seq < rbuf.expected

\* For each missing packet rcopy makes at most SrejRetries SREJs, over all the
\* visits it pays to BUFFERING while it expects that packet, from IN_ORDER and
\* from FLUSHING (doBufferState counts one visit only).
SrejBudget == srejs <= SrejRetries

Written == [i \in 1 .. Len(output) |-> output[i].seq]

Copy == INSTANCE OrderedCopy WITH written <- Written, next <- rbuf.expected

\* rcopy implements OrderedCopy: no step rewrites what is in the output file,
\* or decides a chunk twice.
ImplementsOrderedCopy == Copy!Spec
=============================================================================
