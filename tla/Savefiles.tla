-------------------------------- MODULE Savefiles --------------------------------
(***************************************************************************)
(* tcpdump.c after its setup: pcap_loop calls dump_packet_and_trunc for    *)
(* each packet, which closes the savefile and opens the next one when it   *)
(* is too old (-G) or too large (-C), and has the closed one compressed    *)
(* (-z), while signals interrupt it anywhere.                              *)
(*                                                                         *)
(* Left out: reading from files (-r, -V), printing packets, privileges,    *)
(* and SIGALRM and SIGUSR2, whose handlers only print and flush.           *)
(***************************************************************************)
EXTENDS Integers, Sequences, SequencesExt

CONSTANTS
  Options,     \* records of Cflag, Gflag, Wflag (0 without the option) and zflag
  Sizes,       \* of packets, in the units of Cflag
  MaxPackets,  \* bound on the packets of a capture
  MaxTime,     \* bound on the clock
  MaxSignals   \* bound on the requests for information

ASSUME SavefilesAssumption ==
  /\ \A opts \in Options : {opts.Cflag, opts.Gflag, opts.Wflag} \subseteq Nat
  /\ Sizes \subseteq Nat

VARIABLES
  o,                  \* the options
  pc,                 \* the next statement of the main program
  sp,                 \* the packet that the callback has, and the time when it looks at the clock
  packets_captured,
  Cflag_count, Gflag_count, Gflag_time,
  savefiles,          \* every savefile that was opened, the current one last
  infodelay, infoprint,
  now,                \* what time() returns
  broken,             \* pcap_breakloop was called
  asked,              \* a request for information has no answer yet
  signals,            \* how many requests there were
  children            \* compressors: how many run, how many are zombies, whether SIGCHLD is
                      \* pending, and whether its handler waits

capture == <<sp, packets_captured, Cflag_count, Gflag_count, Gflag_time, savefiles>>
asking  == <<infodelay, infoprint, asked, signals>>
vars    == <<o, pc, capture, asking, now, broken, children>>

\* What strftime makes of the file name is different for each time.
MakeFilename(time, cnt) ==
  <<IF o.Gflag # 0 THEN time ELSE 0, IF o.Cflag = 0 THEN 0 ELSE cnt>>

\* A savefile is known by its name and has its packets, which have a number, a size and the
\* time at which they came.
Savefile(name) == [name |-> name, packets |-> <<>>]
SizeOf(packets) == FoldLeft(LAMBDA sum, p : sum + p.size, 0, packets)

Init ==
  /\ o \in Options /\ pc = "pcap_loop" /\ sp = <<0, 0>> /\ packets_captured = 0
  /\ Cflag_count = 0 /\ Gflag_count = 0 /\ Gflag_time = 0 /\ now = 0
  /\ savefiles = <<Savefile(<<0, 0>>)>>
  /\ infodelay = 0 /\ infoprint = 0 /\ asked = FALSE /\ signals = 0
  /\ broken = FALSE
  /\ children = [running |-> 0, zombies |-> 0, pending |-> FALSE, waiting |-> FALSE]

\* The main program goes on unless the handler of SIGCHLD has interrupted it.
At(statement) == pc = statement /\ ~ children.waiting

\* info: what is asked for is printed.
info == infoprint' = 0 /\ asked' = FALSE

-----------------------------------------------------------------------------
(* dump_packet_and_trunc                                                   *)

Packet(size) ==
  /\ At("pcap_loop") /\ ~ broken /\ packets_captured < MaxPackets
  /\ packets_captured' = packets_captured + 1
  /\ sp' = <<size, 0>> /\ infodelay' = infodelay + 1
  /\ pc' = "rotate_time"
  /\ UNCHANGED <<o, Cflag_count, Gflag_count, Gflag_time, savefiles, infoprint, asked, signals,
                 now, broken, children>>

\* compress_savefile, whose fork may fail.
compress_savefile ==
  \/ o.zflag /\ children' = [children EXCEPT !.running = @ + 1]
  \/ UNCHANGED children

\* pcap_dump_open of the next savefile.
Open(name) == savefiles' = Append(savefiles, Savefile(name))

TimeIsUp == At("rotate_time") /\ o.Gflag # 0 /\ now - Gflag_time >= o.Gflag
TooLarge == At("rotate_size") /\ o.Cflag # 0 /\ SizeOf(Last(savefiles).packets) > o.Cflag
Enough   == o.Cflag = 0 /\ o.Wflag > 0 /\ Gflag_count + 1 >= o.Wflag

\* The savefile is closed.  The next one is opened, unless there are Wflag.
RotateTime ==
  /\ TimeIsUp
  /\ Gflag_time' = now /\ Gflag_count' = Gflag_count + 1 /\ sp' = <<sp[1], now>>
  /\ compress_savefile
  /\ IF Enough
     THEN /\ info /\ pc' = "exit"
          /\ UNCHANGED <<Cflag_count, savefiles>>
     ELSE /\ Cflag_count' = 0 /\ Open(MakeFilename(now, 0)) /\ pc' = "rotate_size"
          /\ UNCHANGED <<infoprint, asked>>
  /\ UNCHANGED <<o, packets_captured, infodelay, signals, now, broken>>

KeepTime ==
  /\ At("rotate_time") /\ ~ TimeIsUp
  /\ sp' = <<sp[1], now>> /\ pc' = "rotate_size"
  /\ UNCHANGED <<o, packets_captured, Cflag_count, Gflag_count, Gflag_time, savefiles, asking,
                 now, broken, children>>

\* The savefile is too large: the next one is opened, or with Wflag the first one again.
RotateSize_OneMore ==   \* mutant: of one more than Wflag savefiles
  /\ TooLarge
  /\ compress_savefile
  /\ Cflag_count' = IF o.Wflag > 0 /\ Cflag_count + 1 > o.Wflag THEN 0 ELSE Cflag_count + 1
  /\ Open(MakeFilename(Gflag_time, Cflag_count'))
  /\ pc' = "dump"
  /\ UNCHANGED <<o, sp, packets_captured, Gflag_count, Gflag_time, asking, now, broken>>
RotateSize ==
  /\ TooLarge
  /\ compress_savefile
  /\ Cflag_count' = IF o.Wflag > 0 /\ Cflag_count + 1 >= o.Wflag THEN 0 ELSE Cflag_count + 1
  /\ Open(MakeFilename(Gflag_time, Cflag_count'))
  /\ pc' = "dump"
  /\ UNCHANGED <<o, sp, packets_captured, Gflag_count, Gflag_time, asking, now, broken>>

KeepSize ==
  /\ At("rotate_size") /\ ~ TooLarge
  /\ pc' = "dump"
  /\ UNCHANGED <<o, capture, asking, now, broken, children>>

\* pcap_dump_open fails.
OpenFails ==
  /\ (TimeIsUp /\ ~ Enough) \/ TooLarge
  /\ pc' = "error"
  /\ UNCHANGED <<o, capture, asking, now, broken, children>>

Dump ==
  /\ At("dump")
  /\ savefiles' = [savefiles EXCEPT ![Len(savefiles)].packets =
                     Append(@, [number |-> packets_captured, size |-> sp[1], time |-> sp[2]])]
  /\ pc' = "undelay"
  /\ UNCHANGED <<o, sp, packets_captured, Cflag_count, Gflag_count, Gflag_time, asking, now, broken, children>>

\* Requests that came in the meantime are answered once they are no longer delayed.
Undelay ==
  /\ At("undelay") /\ infodelay' = infodelay - 1 /\ pc' = "check_info"
  /\ UNCHANGED <<o, capture, infoprint, asked, signals, now, broken, children>>
CheckInfo ==
  /\ At("check_info") /\ pc' = "pcap_loop"
  /\ IF infoprint # 0 THEN info ELSE UNCHANGED <<infoprint, asked>>
  /\ UNCHANGED <<o, capture, infodelay, signals, now, broken, children>>

\* pcap_loop returns -2; main reports and exits, which writes what stdio has buffered.
Interrupted ==
  /\ At("pcap_loop") /\ broken /\ info /\ pc' = "exit"
  /\ UNCHANGED <<o, capture, infodelay, signals, now, broken, children>>

-----------------------------------------------------------------------------
(* Signals and what else happens between any two statements.               *)

Alive == pc \notin {"exit", "error"}

requestinfo ==
  /\ Alive /\ signals < MaxSignals /\ signals' = signals + 1
  /\ IF infodelay > 0 THEN infoprint' = infoprint + 1 /\ asked' = TRUE ELSE info
  /\ UNCHANGED <<o, pc, capture, infodelay, now, broken, children>>

cleanup ==
  /\ Alive /\ ~ broken /\ broken' = TRUE
  /\ UNCHANGED <<o, pc, capture, asking, now, children>>

ChildEnds ==
  /\ Alive /\ children.running > 0
  /\ children' = [children EXCEPT !.running = @ - 1, !.zombies = @ + 1, !.pending = TRUE]
  /\ UNCHANGED <<o, pc, capture, asking, now, broken>>

\* SIGCHLD is blocked while its handler runs.
child_cleanup ==
  /\ Alive /\ children.pending /\ ~ children.waiting
  /\ children' = [children EXCEPT !.pending = FALSE, !.waiting = TRUE]
  /\ UNCHANGED <<o, pc, capture, asking, now, broken>>

\* wait returns when there is a zombie, or no child at all.
Reaped_All ==   \* mutant: the handler waits until no child is left
  /\ Alive /\ children.waiting /\ children.running = 0
  /\ children' = [children EXCEPT !.zombies = 0, !.waiting = FALSE]
  /\ UNCHANGED <<o, pc, capture, asking, now, broken>>
Reaped ==
  /\ Alive /\ children.waiting
  /\ \/ /\ children.zombies > 0
        /\ children' = [children EXCEPT !.zombies = @ - 1, !.waiting = FALSE]
     \/ /\ children.zombies + children.running = 0
        /\ children' = [children EXCEPT !.waiting = FALSE]
  /\ UNCHANGED <<o, pc, capture, asking, now, broken>>

Tick ==
  /\ Alive /\ now < MaxTime /\ now' = now + 1
  /\ UNCHANGED <<o, pc, capture, asking, broken, children>>

-----------------------------------------------------------------------------
MainStep ==
  \/ RotateTime \/ KeepTime \/ RotateSize \/ KeepSize \/ OpenFails
  \/ Dump \/ Undelay \/ CheckInfo \/ Interrupted

Next ==
  \/ \E size \in Sizes : Packet(size)
  \/ MainStep
  \/ requestinfo \/ cleanup \/ ChildEnds \/ child_cleanup \/ Reaped \/ Tick

Spec == Init /\ [][Next]_vars

\* The main program and a handler that has started run on.  Packets need not come, and
\* compressors need not end.
FairSpec == Spec /\ WF_vars(MainStep) /\ WF_vars(child_cleanup) /\ WF_vars(Reaped)

-----------------------------------------------------------------------------
\* Whatever the two kinds of rotation do to each other: every packet is in one savefile, in
\* order.  A savefile that is opened again is -W savefiles old, so that the last ones are on
\* disk, and there are never more of them.  Only the last packet puts one over its size, and
\* its packets came before its time was up.
SavedInOrder ==
  LET saved == FlattenSeq([f \in DOMAIN savefiles |-> savefiles[f].packets])
      written == packets_captured - (IF infodelay > 0 /\ pc # "undelay" THEN 1 ELSE 0)
      ring == o.Cflag # 0 /\ o.Wflag > 0
  IN /\ Len(saved) = written /\ \A k \in 1..written : saved[k].number = k
     /\ \A g \in DOMAIN savefiles : \A f \in 1..(g - 1) :
          /\ savefiles[f].name = savefiles[g].name => ring /\ g - f >= o.Wflag
          /\ ring /\ savefiles[f].name[1] = savefiles[g].name[1] /\ g - f >= o.Wflag =>
               \E h \in (f + 1)..g : savefiles[h].name = savefiles[f].name
     /\ o.Gflag # 0 /\ o.Cflag = 0 /\ o.Wflag > 0 => Len(savefiles) <= o.Wflag
     /\ \A f \in DOMAIN savefiles :
          LET packets == savefiles[f].packets
          IN /\ o.Cflag # 0 /\ packets # <<>> => SizeOf(Front(packets)) <= o.Cflag
             /\ o.Gflag # 0 => \A p \in ToSet(packets) : p.time - savefiles[f].name[1] \in 0..(o.Gflag - 1)

\* A request for information is answered, also one that comes when the callback is just
\* about to return and no packet follows, and an interrupt ends the capture; no compressor
\* that is still running makes the handler of SIGCHLD wait and hold up either.
SignalsServed ==
  /\ asked ~> (~ asked \/ pc = "error")
  /\ broken ~> ~ Alive
=============================================================================
