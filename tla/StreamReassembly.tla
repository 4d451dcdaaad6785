-------------------------- MODULE StreamReassembly --------------------------
(***************************************************************************)
(* How a sensor reads a capture file (pcap.py): the TCP segments of a flow  *)
(* are put together, the stream is split into the frames of its protocol    *)
(* (the five split functions have one shape) and, for OPC UA, a message is  *)
(* read as cleartext when its channel was opened without security earlier   *)
(* in the file.  Files follow one another; a pair of addresses may come back *)
(* in a later one for other connections.                                    *)
(*                                                                          *)
(* Bytes are small integers.  A frame is its kind, its size, a channel and  *)
(* the rest of its body.  A buffer holds stream positions: what the code    *)
(* does depends on the bytes there, the properties on the positions.        *)
(* Segments arrive in any order, repeated, overlapping or not at all.       *)
(***************************************************************************)
EXTENDS Integers, Sequences, FiniteSets, SequencesExt

CONSTANTS Flows,
          Connection,  \* of a flow: its pair of addresses, the same for its two directions
          Wire,        \* of a flow: the bytes of the messages that its sender sent
          Ends,        \* of a flow: the positions after which no message goes on, 0 included
          Isn,         \* of a flow: the sequence number before its first byte
          SeqSpace,    \* 2^32
          MaxSize,     \* MAX_CAPTURE_MESSAGE_SIZE
          Secured,     \* pairs of a flow and a channel that is encrypted on it
          Files,       \* sets of flows: those that one capture file holds
          MaxSegment   \* bound on the length of a segment

Open == 10             \* the kinds of frames: OPN with policy None, and MSG
Msg == 11
Kinds == {Open, Msg}
Sizes == 3..MaxSize

\* A flow is shorter than the sequence space and its messages have proper headers.
\* In one file, nothing between the addresses of a secured channel looks like OPN
\* with policy None and its number: a connection may have channels of both sorts
\* and two files channels of the same number, but where one file reuses addresses
\* and number the code takes the secured channel for the open one.
ASSUME ReassemblyAssumption ==
  /\ SeqSpace \in Nat \ {0} /\ MaxSegment \in Nat \ {0} /\ MaxSize \in Nat
  /\ \A f \in Flows :
       /\ Wire[f] \in Seq(Nat) /\ Len(Wire[f]) < SeqSpace /\ Isn[f] \in 0..(SeqSpace - 1)
       /\ Ends[f] \subseteq 0..Len(Wire[f]) /\ {0, Len(Wire[f])} \subseteq Ends[f]
       /\ \A e \in Ends[f] \ {Len(Wire[f])} :
            LET size == Wire[f][e + 2] IN
            /\ Wire[f][e + 1] \in Kinds /\ size \in Sizes /\ e + size \in Ends[f]
            /\ \A d \in Ends[f] : d <= e \/ d >= e + size
  /\ Files \subseteq SUBSET Flows /\ Secured \subseteq Flows \X Nat
  /\ \A F \in Files : \A f \in F : \A s \in Secured :
       s[1] \in F /\ Connection[f] = Connection[s[1]] =>
         \A i \in 1..(Len(Wire[f]) - 2) : ~(Wire[f][i] = Open /\ Wire[f][i + 2] = s[2])

VARIABLES file,           \* the capture file that is read
          streams,        \* of a flow: its unfinished frame and where that began
          none_channels,  \* channels opened without security
          run,            \* of a flow: the positions received in order up to now
          decoded         \* of a flow: the frames reported in this run

streamVars == <<file, streams, none_channels, run, decoded>>

NoStream == [sequence |-> 0, buffered |-> <<>>]
NoRun == [from |-> 1, to |-> 0]
Range1(from, to) == [i \in 1..(to - from + 1) |-> from + i - 1]

-----------------------------------------------------------------------------
Broken == [valid |-> FALSE, frames |-> <<>>, rest |-> <<>>]

\* One turn of the loop, with i bytes consumed: there is no whole header or frame
\* left, the header is invalid, or one more frame is cut off.  cut is what the
\* turns after this one make of the rest.
Turn(f, data, cut, i) ==
  LET left == Len(data) - i
      kind == Wire[f][data[i + 1]]
      size == Wire[f][data[i + 2]]
      after == cut[i + size]
  IN  IF left >= 2 /\ (kind \notin Kinds \/ size \notin Sizes) THEN Broken
      ELSE IF left < 2 \/ left < size
      THEN [valid |-> TRUE, frames |-> <<>>, rest |-> SubSeq(data, i + 1, Len(data))]
      ELSE IF ~after.valid THEN Broken
      ELSE [after EXCEPT !.frames = <<SubSeq(data, i + 1, i + size)>> \o @]

\* The frames at the head of data and what is left; one invalid header and
\* there is no frame at all.
Split(f, data) ==
  LET cut[i \in 0..Len(data)] == Turn(f, data, cut, i)
  IN  cut[0]

\* Mutant: the sequence number after the remainder is taken for its first.
UnfinishedAtEnd(sequence, length, rest) == [sequence |-> sequence + length, buffered |-> rest]

\* The remainder, with the sequence number of its first byte; not reduced modulo
\* SeqSpace.
Unfinished(sequence, length, rest) ==
  [sequence |-> sequence + length - Len(rest), buffered |-> rest]

\* Mutant: a gap is not noticed.
KeptAlways(f, sequence) == streams[f].buffered

\* The partial frame, unless the segment is not the next one.
Kept(f, sequence) ==
  IF sequence # streams[f].sequence + Len(streams[f].buffered) THEN <<>> ELSE streams[f].buffered

Channel(f, frame) == <<Connection[f], Wire[f][frame[3]]>>

Opened(f, frames) == {Channel(f, frame) : frame \in {g \in ToSet(frames) : Wire[f][g[1]] = Open}}
\* The k-th frame is read with what the ones before it announced.
Report(f, frames, k) ==
  [frame |-> frames[k],
   clear |-> Wire[f][frames[k][1]] = Msg
             /\ Channel(f, frames[k]) \in none_channels \cup Opened(f, SubSeq(frames, 1, k - 1))]

-----------------------------------------------------------------------------
StreamInit ==
  /\ file \in Files
  /\ streams = [f \in Flows |-> NoStream] /\ none_channels = {}
  /\ run = [f \in Flows |-> NoRun] /\ decoded = [f \in Flows |-> {}]

Follow(f, from, to, frames) ==
  LET inOrder == from = run[f].to + 1
      reports == {Report(f, frames, k) : k \in DOMAIN frames}
  IN  /\ run' = [run EXCEPT ![f] = [from |-> IF inOrder THEN @.from ELSE from, to |-> to]]
      /\ decoded' = [decoded EXCEPT ![f] = IF inOrder THEN @ \cup reports ELSE reports]

\* The next packet of the file carries these bytes of a flow.
Segment(f, from, to) ==
  LET sequence == (Isn[f] + from) % SeqSpace
      split == Split(f, Kept(f, sequence) \o Range1(from, to))
  IN  /\ streams' = [streams EXCEPT ![f] =
           IF split.valid THEN Unfinished(sequence, to - from + 1, split.rest) ELSE NoStream]
      /\ none_channels' = none_channels \cup Opened(f, split.frames)
      /\ Follow(f, from, to, split.frames) /\ UNCHANGED file

\* Mutant: the channels outlive the file.
ChannelsRemembered ==
  /\ file' \in Files
  /\ streams' = [f \in Flows |-> NoStream] /\ UNCHANGED none_channels
  /\ run' = [f \in Flows |-> NoRun] /\ decoded' = [f \in Flows |-> {}]

\* A generator starts on the next capture file with no stream and no channel.
NextCapture ==
  /\ file' \in Files
  /\ streams' = [f \in Flows |-> NoStream] /\ none_channels' = {}
  /\ run' = [f \in Flows |-> NoRun] /\ decoded' = [f \in Flows |-> {}]

StreamNext ==
  \/ \E f \in file : \E from \in DOMAIN Wire[f], length \in 1..MaxSegment :
       from + length - 1 <= Len(Wire[f]) /\ Segment(f, from, from + length - 1)
  \/ NextCapture

StreamSpec == StreamInit /\ [][StreamNext]_streamVars

-----------------------------------------------------------------------------
StreamTypeOK ==
  /\ file \in Files
  /\ streams \in [Flows -> [sequence : 0..(SeqSpace + MaxSegment),
                            buffered : Seq(Nat)]]
  /\ none_channels \subseteq {Connection[f] : f \in Flows} \X Nat
  /\ \A f \in Flows :
       /\ run[f].from \in Nat /\ run[f].to \in 0..Len(Wire[f])
       /\ \A r \in decoded[f] : r.clear \in BOOLEAN /\ ToSet(r.frame) \subseteq DOMAIN Wire[f]

\* A reported frame is one piece of its flow's stream: segments around a gap are
\* never put together, in whatever order they arrive.
FramesAreWhole ==
  \A f \in Flows : \A r \in decoded[f] :
    \A i \in 1..(Len(r.frame) - 1) : r.frame[i + 1] = r.frame[i] + 1

\* Where the messages that f's sender sent are in the stream.
Sent(f) == {Range1(e + 1, e + Wire[f][e + 2]) : e \in Ends[f] \ {Len(Wire[f])}}

\* The comparison of sequence numbers does not wrap, so a frame may be lost where
\* they do.
Wraps(f) == Isn[f] + run[f].from < SeqSpace /\ Isn[f] + run[f].to + 1 >= SeqSpace

\* Segments received in order, from the start of a message on, give exactly the
\* messages that they hold, however the messages are cut into segments and
\* whatever came before the first: a gap costs no more than the frames it hits.
RunsAreDecoded ==
  \A f \in Flows :
    run[f].from - 1 \in Ends[f] /\ ~Wraps(f) =>
      {r.frame : r \in decoded[f]} =
        {m \in Sent(f) : Head(m) >= run[f].from /\ Last(m) <= run[f].to}

\* A message of a secured channel is never read as cleartext, though the number of
\* its channel is in the clear on another connection, or was between the same
\* addresses in an earlier file, and another channel of its connection is open.
SecuredStaysOpaque ==
  \A f \in Flows : \A r \in decoded[f] : <<f, Wire[f][r.frame[3]]>> \in Secured => ~r.clear
=============================================================================
