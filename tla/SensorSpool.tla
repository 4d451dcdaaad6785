----------------------------- MODULE SensorSpool -----------------------------
(***************************************************************************)
(* The spool directory of a sensor (cli.py): `capture' writes packets to a *)
(* file and seals it at each rotation; `forward' posts the records of the  *)
(* sealed files and archives a file when all were accepted.  Both seal     *)
(* what an earlier process has left behind when they start, and find it by *)
(* its name alone.                                                         *)
(*                                                                         *)
(* A file that is renamed or deleted stays the file its writer has open.   *)
(* A packet stands for the one record decoded from it.                     *)
(***************************************************************************)
EXTENDS Integers, Sequences, FiniteSets, SequencesExt

CONSTANTS Refused,     \* packets whose record the API refuses (4xx)
          QueueSize,   \* --queue-size
          SpoolLimit,  \* --max-spool-bytes, in packets
          Retries,     \* --retries
          MaxPackets,  \* bound on the packets on the wire
          MaxFiles,    \* bound on the files created
          MaxFaults    \* bound on crashes and unanswered requests

ASSUME SpoolAssumption ==
  /\ MaxPackets \in Nat /\ MaxFiles \in Nat /\ MaxFaults \in Nat
  /\ QueueSize \in Nat \ {0} /\ SpoolLimit \in Nat \ {0} /\ Retries \in Nat
  /\ Refused \subseteq 1..MaxPackets

VARIABLES files,      \* capture files in order of their names
          capture,    \* the capture process
          queue,      \* packets between the sniffer and the file
          sniffed,    \* packets 1..sniffed have been on the wire
          missed,     \* packets dropped at a full queue, or in memory at an exit
          forwarder,  \* the forwarding process
          stored,     \* packets whose records the API has
          seized,     \* files that forward has sealed or deleted under capture
          faults

spoolVars == <<files, capture, queue, sniffed, missed, forwarder, stored, seized, faults>>

Packets == 1..MaxPackets
\* data: the packets that have reached the disk.
File == [place : {"writing", "ready", "archive", "gone"}, data : Seq(Packets)]
Down == [phase |-> "down"]
Stopped == [phase |-> "idle"]
Capturing == [phase : {"writing"}, file : 1..MaxFiles, buffer : Seq(Packets)]
Forwarding == [phase : {"files"}, todo : SUBSET (1..MaxFiles), sent : Nat, attempt : 0..Retries]

-----------------------------------------------------------------------------
In(place) == {f \in DOMAIN files : files[f].place = place}
Live(f) == capture.phase = "writing" /\ capture.file = f

\* spool_usage.
Usage == FoldSet(LAMBDA f, n : n + Len(files[f].data), 0, DOMAIN files \ In("gone"))

\* Mutant: a file with a single packet is taken for one with a header only.
RecoveredAsEmpty(f) ==
  IF files[f].place # "writing" THEN files[f]
  ELSE [files[f] EXCEPT !.place = IF Len(files[f].data) <= 1 THEN "gone" ELSE "ready"]

\* recover_abandoned_captures: a file with a header only is deleted.
Recovered(f) ==
  IF files[f].place # "writing" THEN files[f]
  ELSE [files[f] EXCEPT !.place = IF files[f].data = <<>> THEN "gone" ELSE "ready"]

Recover == files' = [f \in DOMAIN files |-> Recovered(f)]

Fault == faults < MaxFaults /\ faults' = faults + 1

SpoolInit ==
  /\ files = <<>> /\ capture = Down /\ queue = <<>> /\ sniffed = 0 /\ missed = {}
  /\ forwarder = Down /\ stored = {} /\ seized = {} /\ faults = 0

-----------------------------------------------------------------------------
(* capture *)

CaptureStart ==
  /\ capture = Down
  /\ Recover
  /\ capture' = Stopped
  /\ UNCHANGED <<queue, sniffed, missed, forwarder, stored, seized, faults>>

\* enqueue: the sniffer's thread never waits.
Sniff ==
  /\ capture # Down /\ sniffed < MaxPackets
  /\ sniffed' = sniffed + 1
  /\ IF Len(queue) < QueueSize
     THEN queue' = Append(queue, sniffed + 1) /\ UNCHANGED missed
     ELSE missed' = missed \cup {sniffed + 1} /\ UNCHANGED queue
  /\ UNCHANGED <<files, capture, forwarder, stored, seized, faults>>

OpenFile ==
  /\ capture = Stopped /\ Usage < SpoolLimit /\ Len(files) < MaxFiles
  /\ files' = Append(files, [place |-> "writing", data |-> <<>>])
  /\ capture' = [phase |-> "writing", file |-> Len(files) + 1, buffer |-> <<>>]
  /\ UNCHANGED <<queue, sniffed, missed, forwarder, stored, seized, faults>>

\* The process ends; what it has in memory is lost.
Exit ==
  /\ capture' = Down /\ queue' = <<>>
  /\ missed' = missed \cup ToSet(queue)
                      \cup (IF capture.phase = "writing" THEN ToSet(capture.buffer) ELSE {})

\* The limit is reached: capture returns without emptying its queue.
StopAtLimit ==
  /\ capture = Stopped /\ Usage >= SpoolLimit
  /\ Exit
  /\ UNCHANGED <<files, sniffed, forwarder, stored, seized, faults>>

Write ==
  /\ capture.phase = "writing" /\ queue # <<>>
  /\ capture' = [capture EXCEPT !.buffer = Append(@, Head(queue))]
  /\ queue' = Tail(queue)
  /\ UNCHANGED <<files, sniffed, missed, forwarder, stored, seized, faults>>

\* The writer's buffer reaches the disk (sync=False).
Flush ==
  /\ capture.phase = "writing" /\ capture.buffer # <<>>
  /\ files' = [files EXCEPT ![capture.file].data = @ \o capture.buffer]
  /\ capture' = [capture EXCEPT !.buffer = <<>>]
  /\ UNCHANGED <<queue, sniffed, missed, forwarder, stored, seized, faults>>

\* The writer is closed with these last packets; a file with packets is
\* sealed, an empty one deleted and its name forgotten.  A process that finds
\* the name of its packets gone ends.
Close(last, next) ==
  LET f == capture.file
      data == files[f].data \o capture.buffer \o last
      closed == [place |-> IF files[f].place = "writing" THEN "ready" ELSE files[f].place,
                 data |-> data]
  IN  /\ files' = IF data = <<>> /\ files[f].place = "writing" THEN Front(files)
                  ELSE [files EXCEPT ![f] = closed]
      /\ capture' = IF data = <<>> \/ files[f].place = "writing" THEN next ELSE Down

Rotate ==
  /\ capture.phase = "writing"
  /\ Close(<<>>, Stopped)
  /\ IF capture' = Down
     THEN queue' = <<>> /\ missed' = missed \cup ToSet(queue)
     ELSE UNCHANGED <<queue, missed>>
  /\ UNCHANGED <<sniffed, forwarder, stored, seized, faults>>

\* Ctrl+C: the queue is written out and the file sealed.
Interrupt ==
  /\ capture.phase = "writing"
  /\ Close(queue, Down)
  /\ queue' = <<>>
  /\ UNCHANGED <<sniffed, missed, forwarder, stored, seized, faults>>

\* Power fails, or the other process moves health.json.tmp or a capture file
\* between two calls of this one.
CrashCapture ==
  /\ capture # Down
  /\ Fault
  /\ Exit
  /\ UNCHANGED <<files, sniffed, forwarder, stored, seized>>

-----------------------------------------------------------------------------
(* forward *)

ForwardStart ==
  /\ forwarder = Down
  /\ Recover
  /\ seized' = seized \cup {f \in In("writing") : Live(f)}
  /\ forwarder' = [phase |-> "list"]
  /\ UNCHANGED <<capture, queue, sniffed, missed, stored, faults>>

List ==
  /\ forwarder.phase = "list"
  /\ forwarder' = [phase |-> "files", todo |-> In("ready"),
                   sent |-> 0, attempt |-> 0]
  /\ UNCHANGED <<files, capture, queue, sniffed, missed, stored, seized, faults>>

AtFile == forwarder.phase = "files" /\ forwarder.todo # {}
Path == Min(forwarder.todo)
AtRecord == AtFile /\ forwarder.sent < Len(files[Path].data)
Record == files[Path].data[forwarder.sent + 1]
NextFile == forwarder' = [forwarder EXCEPT !.todo = @ \ {Path}, !.sent = 0, !.attempt = 0]

PostAccepted ==
  /\ AtRecord /\ Record \notin Refused
  /\ stored' = stored \cup {Record}
  /\ forwarder' = [forwarder EXCEPT !.sent = @ + 1, !.attempt = 0]
  /\ UNCHANGED <<files, capture, queue, sniffed, missed, seized, faults>>

\* 4xx: delivery of the file is deferred.
PostRefused ==
  /\ AtRecord /\ Record \in Refused
  /\ NextFile
  /\ UNCHANGED <<files, capture, queue, sniffed, missed, stored, seized, faults>>

\* 5xx, no connection or no answer, though the record may be stored.  A request is
\* tried again up to Retries times; delivery of the file is deferred after the last
\* of them, and at once where reading the answer fails, which is no URLError.
PostUnanswered ==
  /\ AtRecord
  /\ Fault
  /\ \/ UNCHANGED stored
     \/ Record \notin Refused /\ stored' = stored \cup {Record}
  /\ \/ forwarder.attempt < Retries /\ forwarder' = [forwarder EXCEPT !.attempt = @ + 1]
     \/ NextFile
  /\ UNCHANGED <<files, capture, queue, sniffed, missed, seized>>

Archive ==
  /\ AtFile /\ ~AtRecord
  /\ files' = [files EXCEPT ![Path].place = "archive"]
  /\ NextFile
  /\ UNCHANGED <<capture, queue, sniffed, missed, stored, seized, faults>>

Delete(expired) ==
  files' = [f \in DOMAIN files |->
              IF f \in expired THEN [files[f] EXCEPT !.place = "gone"] ELSE files[f]]
PassEnds ==
  /\ forwarder.phase = "files" /\ forwarder.todo = {}
  /\ forwarder' = [phase |-> "list"]
  /\ UNCHANGED <<capture, queue, sniffed, missed, stored, seized, faults>>

\* Mutant: a pass with a deferred file never ends.
RetainOrWait ==
  /\ PassEnds /\ In("ready") = {}
  /\ \E expired \in SUBSET In("archive") : Delete(expired)

\* enforce_archive_retention, by the time of the last write; then the next pass.
Retain ==
  /\ PassEnds
  /\ \E expired \in SUBSET In("archive") : Delete(expired)

CrashForwarder ==
  /\ forwarder # Down
  /\ Fault
  /\ forwarder' = Down
  /\ UNCHANGED <<files, capture, queue, sniffed, missed, stored, seized>>

-----------------------------------------------------------------------------
Capture == CaptureStart \/ OpenFile \/ StopAtLimit \/ Write \/ Flush \/ Rotate
Forward == ForwardStart \/ List \/ PostAccepted \/ PostRefused \/ Archive \/ Retain

SpoolNext ==
  \/ Capture \/ Sniff \/ Interrupt \/ CrashCapture
  \/ Forward \/ PostUnanswered \/ CrashForwarder

SpoolSpec == SpoolInit /\ [][SpoolNext]_spoolVars

\* Both processes are restarted and a live one goes on; a rotation interval ends,
\* and not for ever before its first look at the queue.
FairSpoolSpec ==
  /\ SpoolSpec
  /\ WF_spoolVars(CaptureStart) /\ WF_spoolVars(OpenFile \/ StopAtLimit) /\ SF_spoolVars(Write) /\ WF_spoolVars(Rotate)
  /\ WF_spoolVars(Forward)

-----------------------------------------------------------------------------
SpoolTypeOK ==
  /\ files \in Seq(File) /\ Len(files) <= MaxFiles
  /\ capture \in {Down, Stopped} \cup Capturing
  /\ queue \in Seq(Packets) /\ Len(queue) <= QueueSize
  /\ sniffed \in 0..MaxPackets /\ missed \subseteq Packets
  /\ forwarder \in {Down, [phase |-> "list"]} \cup Forwarding
  /\ stored \subseteq Packets /\ seized \subseteq 1..MaxFiles
  /\ faults \in 0..MaxFaults

Holds(f, n) == n \in ToSet(files[f].data)
InMemory == ToSet(queue) \cup (IF capture.phase = "writing" THEN ToSet(capture.buffer) ELSE {})

\* A packet on the wire is missed by a full queue or an exit of capture, or it
\* is in memory, in a file still to be forwarded, or stored: whatever crashes,
\* retries, recovery and retention do.  Only a file that forward takes from a
\* running capture may be archived or deleted with records never sent.
EvidenceKept ==
  \A n \in 1..sniffed :
    n \in missed \/ n \in InMemory \/ n \in stored
      \/ \E f \in DOMAIN files : Holds(f, n) /\ (files[f].place \in {"writing", "ready"} \/ f \in seized)

\* A record that can be stored is stored at last, through restarts, full spools
\* and unanswered requests; one the API refuses holds up its own file only.
EvidenceArrives ==
  \A n \in Packets :
    n <= sniffed ~>
      \/ n \in missed \cup stored
      \/ \E f \in DOMAIN files : Holds(f, n) /\ (f \in seized \/ ToSet(files[f].data) \cap Refused # {})
=============================================================================
