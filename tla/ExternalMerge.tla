------------------------------ MODULE ExternalMerge ------------------------------
(***************************************************************************)
(* sort's merge of files: sort() writes every bufferful of its input to a  *)
(* temporary file and merge() merges them, at most nmerge at a time; with  *)
(* -m, merge() starts from the user's files.  Descriptors may run out      *)
(* (open_input_files), an input may be the output (avoid_trashing_input),  *)
(* and with --compress-program every temporary file has a child process    *)
(* that compresses it and later one that decompresses it (pipe_fork, reap, *)
(* open_temp, zaptemp).                                                    *)
(*                                                                         *)
(* A file is a number: the user's files, or the bufferfuls of sort(), are  *)
(* 1..N in their order; a temporary file is a number above N.  What a file *)
(* holds is the sequence of those of 1..N whose lines were merged into it, *)
(* in the order in which their equal lines come.                           *)
(***************************************************************************)
EXTENDS Integers, Sequences, FiniteSets, SequencesExt

CONSTANTS
  N,          \* a bound: files of the user, or bufferfuls that sort() writes
  MaxTemps,   \* a bound: temporary files at a time
  Scenarios   \* the options and circumstances that are considered

Users == 1..N
Temps == (N + 1)..(N + MaxTemps)
Files == Users \cup Temps

ASSUME ExternalAssumption ==
  /\ {N, MaxTemps} \subseteq Nat
  /\ \A s \in Scenarios :
       /\ s.total \in Users       \* how many of the files 1..N there are
       /\ s.nmerge \in Nat \ {0, 1} /\ s.fds \in Nat
       /\ s.strangers \in Nat /\ s.stdin \in {0} \cup Users
       /\ s.same \cup s.unreadable \subseteq Users
       /\ s.sorting => s.same = {}  \* then 1..N are no files of the user
       /\ {s.sorting, s.compress, s.forkFails, s.faulty, s.fitsPipe} \subseteq BOOLEAN

VARIABLES
  options,     \* the scenario, which stays
  pc, cont,    \* where the program is, and where it goes on after a fork
  files,       \* the sortfile array
  ntemps, nfiles, in, out,  \* the locals of merge
  i, tempcopy, \* the locals of avoid_trashing_input
  w,           \* the merge that is running: the arguments of mergefiles
  fps,         \* the files that are open for it, in the order of the array
  content,     \* what each file holds
  temphead,    \* the list of temporary files
  disk,        \* the temporary files that exist
  state,       \* of each temporary file: UNCOMPRESSED, UNREAPED, REAPED
  child,       \* of each temporary file: its child process
  nprocs,      \* the number of unreaped children, as the program counts them
  strangers,   \* children that sort did not start and that were not waited for
  failed,      \* whether a child ever failed
  died,        \* the diagnostic, or ""
  output       \* what standard output holds

mergeVars == <<files, ntemps, nfiles, in, out, i, tempcopy>>
tempVars  == <<content, temphead, disk>>
procVars  == <<state, child, nprocs, strangers>>
endVars   == <<options, failed, died, output>>
vars == <<pc, cont, mergeVars, w, fps, tempVars, procVars, endVars>>

total   == options.total
nmerge  == options.nmerge      \* --batch-size
fds     == options.fds         \* the descriptors the process may have, standard ones apart
Sorting == options.sorting     \* sort() calls merge; otherwise -m
Stdin   == options.stdin       \* the user file named "-", or 0
Same    == options.same        \* the user files that are the output file
Unreadable == options.unreadable  \* the user files that check_inputs found and are gone
Compress  == options.compress     \* --compress-program
ForkFails == options.forkFails    \* fork may fail, even after its retries
Faulty    == options.faulty       \* a child may fail
FitsPipe  == options.fitsPipe     \* what a decompressor writes fits in a pipe

Stdout == 0
NoMerge == [base |-> 0, ntemps |-> 0, nfiles |-> 0, to |-> Stdout, ret |-> "none"]

\* The files in Same are one file.
Holds(f) == IF f \in Same THEN CHOOSE g \in Same : \A h \in Same : g <= h ELSE f

Init ==
  /\ options \in Scenarios
  /\ pc = IF Sorting THEN "runs" ELSE "pass"
  /\ cont = "none"
  /\ files = [k \in Users |-> k]
  /\ ntemps = IF Sorting THEN total ELSE 0
  /\ nfiles = total
  /\ in = 0 /\ out = 0 /\ i = 0 /\ tempcopy = 0
  /\ w = NoMerge /\ fps = <<>>
  /\ content = [f \in Files |-> IF f \in Users THEN <<Holds(f)>> ELSE <<>>]
  /\ temphead = <<>> /\ disk = {}
  /\ state = [f \in Temps |-> "UNCOMPRESSED"]
  /\ child = [f \in Temps |-> "none"]
  /\ nprocs = 0 /\ strangers = options.strangers
  /\ failed = FALSE /\ died = "" /\ output = <<>>

-----------------------------------------------------------------------------
(* Ending *)

\* exit_cleanup, which exit runs.
cleanup == disk' = disk \ ToSet(temphead) /\ temphead' = <<>>

die(why) ==
  /\ pc' = "exit" /\ died' = why /\ cleanup
  /\ UNCHANGED <<cont, mergeVars, w, fps, content, procVars, options, failed, output>>

-----------------------------------------------------------------------------
(* Descriptors *)

Cost(f) == IF f = Stdin THEN 0 ELSE 1

\* The descriptors in use: the open inputs, the temporary file that is written,
\* and, while sort() reads it, its input.
Used == FoldLeft(LAMBDA n, f : n + Cost(f), 0, fps)
        + (IF w.to # Stdout THEN 1 ELSE 0)
        + (IF pc \in {"runs", "run"} \/ cont = "run" THEN 1 ELSE 0)
Free == fds - Used

-----------------------------------------------------------------------------
(* Child processes *)

\* The children that have exited and were not waited for: normally, or not.
Zombies == {c \in Temps : child[c] \in {"exited", "failed"}}

\* reap of the children in Z, each of which has exited: delete_proc and --nprocs.
Reaped(Z) ==
  /\ state' = [c \in Temps |-> IF c \in Z THEN "REAPED" ELSE state[c]]
  /\ child' = [c \in Temps |-> IF c \in Z THEN "none" ELSE child[c]]
  /\ nprocs' = nprocs - Cardinality(Z)

Abnormal_Ignored(Z) == FALSE   \* mutant: reap does not look at the status
Abnormal(Z) == \E c \in Z : child[c] = "failed"

\* pipe_fork waits for a child first if there are too many.
MayFork_Unlimited == TRUE   \* mutant: as many children as there are files
MayFork == nprocs <= nmerge + 1

Pipe(wait, go) == pc' = IF MayFork THEN go ELSE wait

\* A child exits.  A compressor ends when its input is closed; a decompressor when
\* it could write everything: the pipe holds it all, or mergefps reads it.  If the
\* pipe is closed before that, SIGPIPE kills it.
CanFinish(c) == \/ child[c] = "flushing"
                \/ child[c] = "decompressing" /\ (FitsPipe \/ (pc = "merging" /\ Contains(fps, c)))

MayFail(c) == \/ Faulty /\ CanFinish(c)
              \/ child[c] = "decompressing" /\ ~Contains(fps, c)

ChildExit(c) ==
  /\ pc # "exit"
  /\ \/ CanFinish(c) /\ child' = [child EXCEPT ![c] = "exited"] /\ UNCHANGED failed
     \/ MayFail(c) /\ child' = [child EXCEPT ![c] = "failed"] /\ failed' = TRUE
  /\ UNCHANGED <<pc, cont, mergeVars, w, fps, tempVars, state, nprocs, strangers, options, died, output>>

\* The children in Zombies are reaped, unless one of them failed.
ReapExited(next) ==
  IF Abnormal(Zombies) THEN die("abnormal")
  ELSE /\ Reaped(Zombies) /\ pc' = next
       /\ UNCHANGED <<cont, mergeVars, w, fps, tempVars, strangers, endVars>>

\* reap_some returns when a child of ours has exited, or a stranger has: then no
\* child may be reaped, and pipe_fork goes on all the same.
ReapSome ==
  /\ pc \in {"pipe", "pipein"}
  /\ \/ Zombies # {} /\ ReapExited(IF pc = "pipe" THEN "fork" ELSE "forkin")
     \/ /\ strangers > 0 /\ Zombies = {}
        /\ strangers' = strangers - 1
        /\ pc' = IF pc = "pipe" THEN "fork" ELSE "forkin"
        /\ UNCHANGED <<cont, mergeVars, w, fps, tempVars, state, child, nprocs, endVars>>

\* fork fails for now: reap_exited before the next try.
Retry == pc \in {"fork", "forkin"} /\ ForkFails /\ Zombies # {} /\ ReapExited(pc)

\* A new child works for the temporary file f.
Forked(f, work) ==
  /\ state' = [state EXCEPT ![f] = "UNREAPED"]
  /\ child' = [child EXCEPT ![f] = work]
  /\ nprocs' = nprocs + 1

Fork ==
  /\ pc = "fork" /\ Forked(w.to, "compressing")
  /\ pc' = cont /\ cont' = "none"
  /\ UNCHANGED <<mergeVars, w, fps, tempVars, strangers, endVars>>

ForkDecompressor ==
  LET f == files[w.base + Len(fps) + 1] IN
  /\ pc = "forkin" /\ Forked(f, "decompressing")
  /\ pc' = "open" /\ fps' = Append(fps, f)
  /\ UNCHANGED <<cont, mergeVars, w, tempVars, strangers, endVars>>

\* No try succeeds: the temporary file is written without compression, but one that
\* is compressed cannot be read.
ForkFailed ==
  /\ ForkFails
  /\ \/ /\ pc = "fork" /\ pc' = cont /\ cont' = "none"
        /\ UNCHANGED <<mergeVars, w, fps, tempVars, procVars, endVars>>
     \/ pc = "forkin" /\ die("fork")

-----------------------------------------------------------------------------
(* Temporary files *)

\* The name of a new file: one that is not in use.
Unused == Temps \ disk
NewTemp == Min(Unused)

\* The file and its node in the list.  Of the free descriptors one is for the file;
\* without two more for a pipe it is not compressed.
maybe_create_temp(label, free) ==
  /\ Unused # {}
  /\ temphead' = Append(temphead, NewTemp)
  /\ disk' = disk \cup {NewTemp}
  /\ state' = [state EXCEPT ![NewTemp] = "UNCOMPRESSED"]
  /\ IF Compress /\ free >= 3 THEN Pipe("pipe", "fork") /\ cont' = label
                              ELSE pc' = label /\ cont' = "none"

\* sort() writes a bufferful.
NewRun ==
  /\ pc = "runs" /\ Len(temphead) < total
  /\ IF Free >= 1
     THEN /\ maybe_create_temp("run", Free)
          /\ w' = [NoMerge EXCEPT !.to = NewTemp]
          /\ UNCHANGED <<mergeVars, fps, content, child, nprocs, strangers, endVars>>
     ELSE die("create")

\* The end of a file that is written: its compressor can finish.
Closed(f) == child' = IF f \in Temps /\ child[f] = "compressing"
                      THEN [child EXCEPT ![f] = "flushing"] ELSE child

CloseRun ==
  /\ pc = "run"
  /\ content' = [content EXCEPT ![w.to] = <<Len(temphead)>>]
  /\ Closed(w.to)
  /\ w' = NoMerge /\ pc' = "runs"
  /\ UNCHANGED <<cont, mergeVars, fps, temphead, disk, state, nprocs, strangers, endVars>>

\* The list of temporary files, in its order, is what sort() gives merge().
RunsDone ==
  /\ pc = "runs" /\ Len(temphead) = total
  /\ files' = [k \in Users |-> IF k <= total THEN temphead[k] ELSE k]
  /\ pc' = "pass"
  /\ UNCHANGED <<cont, ntemps, nfiles, in, out, i, tempcopy, w, fps, tempVars, procVars, endVars>>

-----------------------------------------------------------------------------
(* merge *)

\* create_temp, and the call of mergefiles for n files from files[base] on.
StartMerge(base, nt, n, ret) ==
  IF Free >= 1
  THEN /\ maybe_create_temp("open", Free)
       /\ w' = [base |-> base, ntemps |-> nt, nfiles |-> n, to |-> NewTemp, ret |-> ret]
       /\ UNCHANGED <<mergeVars, fps, content, child, nprocs, strangers, endVars>>
  ELSE die("create")

Pass ==
  /\ pc = "pass"
  /\ IF nmerge < nfiles THEN in' = 0 /\ out' = 0 /\ pc' = "full" /\ UNCHANGED i
                        ELSE i' = ntemps /\ pc' = "avoid" /\ UNCHANGED <<in, out>>
  /\ UNCHANGED <<cont, files, ntemps, nfiles, tempcopy, w, fps, tempVars, procVars, endVars>>

FullMerge ==
  /\ pc = "full" /\ nmerge <= nfiles - in
  /\ StartMerge(in, Min({ntemps, nmerge}), nmerge, "full")

\* nfiles % nmerge, or more if descriptors ran out, and the slots in the last window.
remainder == nfiles - in
cheap_slots == nmerge - (out % nmerge)

nshortmerge == remainder - cheap_slots + 1

ShortMerge ==
  /\ pc = "full" /\ nmerge > remainder /\ cheap_slots < remainder
  /\ StartMerge(in, Min({ntemps, nshortmerge}), nshortmerge, "short")

Remaining_Unmoved(k) == files[k]   \* mutant: no memmove
Remaining(k) == files[k - out + in]

\* The remaining files move into the last window of the next pass.
PassEnds ==
  /\ \/ pc = "full" /\ nmerge > remainder /\ cheap_slots >= remainder
     \/ pc = "shift"
  /\ files' = [k \in Users |-> IF k \in (out + 1)..(out + remainder)
                               THEN Remaining(k) ELSE files[k]]
  /\ ntemps' = ntemps + out
  /\ nfiles' = nfiles - (in - out)
  /\ pc' = "pass"
  /\ UNCHANGED <<cont, in, out, i, tempcopy, w, fps, tempVars, procVars, endVars>>

\* avoid_trashing_input, for files[i].
IsSame_Once(f) == f \in Same /\ tempcopy = 0   \* mutant: the copy replaces one input
IsSame(f) == f \in Same

AvoidTrashing ==
  /\ pc = "avoid" /\ i < nfiles
  /\ IF IsSame(files[i + 1]) /\ tempcopy = 0
     THEN StartMerge(i, 0, 1, "copy")
     ELSE /\ files' = IF IsSame(files[i + 1]) THEN [files EXCEPT ![i + 1] = tempcopy] ELSE files
          /\ i' = i + 1
          /\ UNCHANGED <<pc, cont, ntemps, nfiles, in, out, tempcopy, w, fps, tempVars, procVars, endVars>>

\* The loop that ends with a merge into the output.
LastMerge ==
  /\ \/ pc = "avoid" /\ i = nfiles
     \/ pc = "last"
  /\ w' = [base |-> 0, ntemps |-> ntemps, nfiles |-> nfiles, to |-> Stdout, ret |-> "last"]
  /\ pc' = "open"
  /\ UNCHANGED <<cont, mergeVars, fps, tempVars, procVars, endVars>>

-----------------------------------------------------------------------------
(* open_input_files *)

Compressed(f) == f \in Temps /\ state[f] # "UNCOMPRESSED"

\* What the files that are open hold, in their order.
Contents == FlattenSeq([k \in 1..Len(fps) |-> content[fps[k]]])

\* mergefps starts with the files that are open.
mergefps ==
  /\ content' = IF w.to = Stdout THEN content ELSE [content EXCEPT ![w.to] = Contents]
  /\ output' = IF w.to = Stdout THEN Contents ELSE output
  /\ w' = [w EXCEPT !.nfiles = Len(fps)]
  /\ pc' = "merging"
  /\ UNCHANGED <<cont, mergeVars, fps, temphead, disk, procVars, options, failed, died>>

TooFew_Two == Len(fps) <= 2   \* mutant: mergefiles needs a third file as well
TooFew_One == Len(fps) < 2    \* mutant: the last merge closes one of two inputs
TooFew == IF w.ret = "last" THEN Len(fps) <= 2 ELSE Len(fps) < 2

\* A file could not be opened: merge the others, unless they are too few.
OpenFails ==
  IF TooFew THEN die("open")
  ELSE IF w.ret = "last"
  THEN pc' = "shed" /\ UNCHANGED <<cont, mergeVars, w, fps, tempVars, procVars, endVars>>
  ELSE mergefps

Opened == pc = "open" /\ Len(fps) = w.nfiles /\ mergefps

Open ==
  LET f == files[w.base + Len(fps) + 1] IN
  /\ pc = "open" /\ Len(fps) < w.nfiles
  /\ ~Compressed(f)
  /\ IF Free >= Cost(f) /\ f \notin Unreadable
     THEN /\ fps' = Append(fps, f)
          /\ UNCHANGED <<pc, cont, mergeVars, w, tempVars, procVars, endVars>>
     ELSE OpenFails

\* open_temp: the child that has the file is waited for, whatever it does.
OpenTemp ==
  LET f == files[w.base + Len(fps) + 1] IN
  /\ pc = "open" /\ Len(fps) < w.nfiles
  /\ Compressed(f)
  /\ \/ /\ state[f] = "UNREAPED" /\ f \in Zombies
        /\ IF Abnormal({f}) THEN die("abnormal")
           ELSE /\ Reaped({f})
                /\ UNCHANGED <<pc, cont, mergeVars, w, fps, tempVars, strangers, endVars>>
     \/ /\ state[f] = "REAPED"
        /\ IF Free >= 3
           THEN /\ Pipe("pipein", "forkin")
                /\ UNCHANGED <<cont, mergeVars, w, fps, tempVars, procVars, endVars>>
           ELSE OpenFails

\* The last merge ran out of descriptors: it closes an input to have one for a
\* temporary file, and again if that was not enough.
Shed ==
  /\ pc = "shed"
  /\ LET left == Front(fps)
         free == Free + Cost(Last(fps))
     IN IF free >= 1
        THEN /\ maybe_create_temp("open", free)
             /\ fps' = left
             /\ w' = [w EXCEPT !.ntemps = Min({ntemps, Len(left)}), !.nfiles = Len(left),
                               !.to = NewTemp, !.ret = "shed"]
             /\ UNCHANGED <<mergeVars, content, child, nprocs, strangers, endVars>>
        ELSE IF Len(left) <= 2 THEN die("create")
        ELSE /\ fps' = left
             /\ UNCHANGED <<pc, cont, mergeVars, w, tempVars, procVars, endVars>>

-----------------------------------------------------------------------------
(* mergefps *)

\* No more input from fps[k].  What a decompressor wrote is read before its end.
AtEnd(k) == Compressed(fps[k]) => child[fps[k]] \in {"none", "exited", "failed"}

zaptemp(f) == /\ temphead' = RemoveAt(temphead, Min({k \in DOMAIN temphead : temphead[k] = f}))
              /\ disk' = disk \ {f}
              /\ content' = [content EXCEPT ![f] = <<>>]

IsTemp(k) == k <= w.ntemps

EndOfInput ==
  /\ pc = "merging"
  /\ \E k \in DOMAIN fps :
       LET f == fps[k]
           waits == IsTemp(k) /\ Compressed(f) /\ state[f] = "UNREAPED"
       IN /\ AtEnd(k)
          /\ IF waits /\ Abnormal({f}) THEN die("abnormal")
             ELSE /\ IF waits THEN Reaped({f}) ELSE UNCHANGED <<state, child, nprocs>>
                  /\ IF IsTemp(k) THEN zaptemp(f) /\ w' = [w EXCEPT !.ntemps = @ - 1]
                                  ELSE UNCHANGED <<tempVars, w>>
                  /\ fps' = RemoveAt(fps, k)
                  /\ files' = [x \in Users |->
                                 IF x \in (w.base + k)..(w.base + Len(fps) - 1)
                                 THEN files[x + 1] ELSE files[x]]
                  /\ UNCHANGED <<pc, cont, ntemps, nfiles, in, out, i, tempcopy, strangers, endVars>>

\* The callers of mergefps go on.
MergedTemps == Min({ntemps, w.nfiles})

EndOfMerge ==
  /\ pc = "merging" /\ fps = <<>>
  /\ Closed(w.to)
  /\ w' = NoMerge
  /\ CASE w.ret \in {"full", "short"} ->
            /\ ntemps' = ntemps - MergedTemps
            /\ files' = [files EXCEPT ![out + 1] = w.to]
            /\ in' = in + w.nfiles
            /\ out' = out + 1
            /\ pc' = IF w.ret = "full" THEN "full" ELSE "shift"
            /\ UNCHANGED <<nfiles, i, tempcopy>>
       [] w.ret = "copy" ->
            /\ tempcopy' = w.to
            /\ pc' = "avoid"
            /\ UNCHANGED <<files, ntemps, nfiles, in, out, i>>
       [] w.ret = "shed" ->
            /\ ntemps' = ntemps - MergedTemps + 1
            /\ files' = [x \in Users |-> CASE x = 1 -> w.to
                                           [] x \in 2..(nfiles - w.nfiles + 1) -> files[x + w.nfiles - 1]
                                           [] OTHER -> files[x]]
            /\ nfiles' = nfiles - (w.nfiles - 1)
            /\ pc' = "last"
            /\ UNCHANGED <<in, out, i, tempcopy>>
       [] w.ret = "last" ->
            /\ pc' = "finish"
            /\ UNCHANGED mergeVars
  /\ UNCHANGED <<cont, fps, tempVars, state, nprocs, strangers, endVars>>

-----------------------------------------------------------------------------
\* sort() calls reap_all, -m does not; then the program exits.
Finish ==
  /\ pc = "finish"
  /\ IF Sorting /\ nprocs > 0
     THEN \E c \in Zombies :
            IF Abnormal({c}) THEN die("abnormal")
            ELSE /\ Reaped({c})
                 /\ UNCHANGED <<pc, cont, mergeVars, w, fps, tempVars, strangers, endVars>>
     ELSE die("")

Main == \/ NewRun \/ CloseRun \/ RunsDone
        \/ Pass \/ FullMerge \/ ShortMerge \/ PassEnds \/ AvoidTrashing \/ LastMerge
        \/ Open \/ OpenTemp \/ Opened \/ Shed
        \/ ReapSome \/ Retry \/ Fork \/ ForkDecompressor \/ ForkFailed
        \/ EndOfInput \/ EndOfMerge \/ Finish

Next == Main \/ (\E c \in Temps : ChildExit(c))

Spec == Init /\ [][Next]_vars

\* The program and its children are scheduled.
FairSpec == Spec /\ WF_vars(Main) /\ WF_vars(\E c \in Temps : ChildExit(c))

-----------------------------------------------------------------------------
(* Properties *)

TypeOK ==
  /\ files \in [Users -> Files]
  /\ {ntemps, nfiles, in, out, i} \subseteq 0..N
  /\ tempcopy \in Temps \cup {0}
  /\ w \in [base : 0..N, ntemps : 0..N, nfiles : 0..N, to : Temps \cup {Stdout},
            ret : {"none", "full", "short", "copy", "shed", "last"}]
  /\ fps \in Seq(Files)
  /\ content \in [Files -> Seq(Users)]
  /\ disk \subseteq Temps /\ temphead \in Seq(Temps)
  /\ state \in [Temps -> {"UNCOMPRESSED", "UNREAPED", "REAPED"}]
  /\ child \in [Temps -> {"none", "compressing", "flushing", "decompressing", "exited", "failed"}]
  /\ nprocs \in Nat /\ Free \in 0..fds

\* The files that are still to be merged, in their order, between two merges.
BetweenMerges == pc \in {"pass", "full", "avoid", "last"}
Pending == IF pc = "full" THEN SubSeq(files, 1, out) \o SubSeq(files, in + 1, nfiles)
                          ELSE SubSeq(files, 1, nfiles)

AllInOrder == [k \in 1..total |-> Holds(k)]

\* However many passes there are, and wherever descriptors ran out, nothing is
\* lost or merged twice, and lines that compare equal come out in the order of the
\* input files: each temporary file holds neighbours, in the place where they were.
\* The comment on mergefps: the temporary files, which it removes, are the first
\* ntemps of the array.  All others are the user's, or the copy of one, and no
\* temporary file is left in the list that is in neither place.  zaptemp, which searches
\* the list for a name with no test for its end, is called only for files that are in it.
StableOrder ==
  /\ pc = "finish" \/ (pc = "exit" /\ died = "") => output = AllInOrder
  /\ BetweenMerges =>
       LET first == IF pc = "full" THEN out + ntemps ELSE ntemps
           temps == {Pending[k] : k \in 1..first}
           rest  == {Pending[k] : k \in (first + 1)..Len(Pending)}
       IN /\ FlattenSeq([k \in 1..Len(Pending) |-> content[Pending[k]]]) = AllInOrder
          /\ first <= Len(Pending)
          /\ temps \subseteq Temps \ {tempcopy}
          /\ rest \subseteq Users \cup {tempcopy}
          /\ ToSet(temphead) = temps \cup ({tempcopy} \ {0})
          /\ Cardinality(temps) = first
  /\ pc = "merging" => \A k \in DOMAIN fps : IsTemp(k) => Contains(temphead, fps[k])

\* The output is opened for writing only when no input that is still to be read is
\* the same file (avoid_trashing_input).
InputNotTrashed == pc = "merging" /\ w.to = Stdout => ToSet(fps) \cap Same = {}

\* nprocs is the number of children that were not waited for, in every order of their
\* ends and of the calls of reap, and (the comment in pipe_fork) at most NMERGE + 2.  Each
\* child that sort did not start may let one more through, since reap_some then returns for it.
SubprocessBound ==
  /\ nprocs = Cardinality({c \in Temps : child[c] # "none"})
  /\ nprocs <= nmerge + 2 + (options.strangers - strangers)

\* With descriptors for two inputs and an output, and no child to fail, sort does not
\* give up, however few descriptors it has for its batches: see the comment before the
\* loop at the end of merge.
Survives == fds >= 3 /\ Sorting /\ ~Faulty /\ ~ForkFails => died \notin {"open", "create", "abnormal"}

\* sort() does not exit successfully when a child failed.
FailureSeen == Sorting /\ pc = "exit" /\ died = "" => ~failed

\* sort ends: it never waits for a child that waits for it.
Terminates == <>(pc = "exit")
=============================================================================
