# Verification of the programs LMCAS specialises

LMCAS specialises C programs: it runs a program up to its *neck*, the place in
`main` where its configuration ends, keeps the state that was reached as constants
and removes what can then not be reached.  The tools that do this (neck
identification, the KLEE fork, the LLVM passes) are submodules without files here.
What this repository holds is the scripts that drive them and the programs they are
used on, annotated with the neck: fifteen GNU coreutils 8.32, readelf, objdump and
tcpdump.  The specialised program must do what the original does from the neck on,
so the behaviour after the neck is what is worth stating and checking.  The
models start there, with the options as constants.

By far the most intricate of the programs is `annotated_Dataset-1/sort.c` (4786
lines): threads that sort and merge over shared lines, a merge of files in passes
that must survive running out of descriptors, child processes that compress, and
signal handlers that remove temporary files.  It was modelled first; then the other coreutils with
state of their own, tcpdump's savefiles, and the parts of readelf and objdump in which what is shown
depends on what came before.

All line numbers below are of `src/annotated_Dataset-1/sort.c` unless another file
is named.

## Inventory

### sort

| Part | State | Operations | Hard behaviour | What makes it correct |
|---|---|---|---|---|
| internal parallel merge (3140-3688) | line table, `merge_node`s with a mutex each, `merge_node_queue`, `saved_line` | `sortlines`, `merge_tree_init`, `init_node`, `queue_insert`, `queue_pop`, `mergelines_node`, `queue_check_insert`, `queue_check_insert_parent`, `merge_loop`, `write_unique` | all threads merge all nodes; `*node->dest` is stored without the parent's lock; `pthread_create` may fail at any node; threads wait for work that others find | the output is the stable sort; no node is queued twice or forgotten; counts are exact; no line of the table is overwritten; all threads leave |
| external merge (2899-3140, 3687-4021) | `files[]`, `ntemps`, `nfiles`, list of temporary files, descriptors | `sort`, `merge`, `mergefiles`, `open_input_files`, `avoid_trashing_input`, `maybe_create_temp`, `zaptemp` | several passes; descriptors run out in the middle of opening; inputs that are the output; inputs that vanish | nothing lost, stable order, only temporary files removed, the output opened after its last use as input, progress |
| compressors (676-803, 1033-1240) | `proctab`, `nprocs`, `tempnode.state` | `pipe_fork`, `reap`, `wait_proc`, `reap_exited`, `reap_some`, `reap_all`, `open_temp` | children end in any order, fail, or wait for a reader; fork fails | count of children exact and bounded; a failure is never taken for success; sort never waits for a child that waits for it |
| temporary files and signals (632-665, 805-885, 1240-1272, 4111-4123, 4278-4308) | `temphead`, `temptail`, signal masks | `create_temp_file`, `zaptemp`, `cleanup`, `exit_cleanup`, `sighandler`, the window around `fork` | a signal at any statement and on any thread; a child that dies before `exec` | no file is left, none removed early, no freed node is reached |
| sequential sort (3140-3250) | half the lines and scratch space | `sequential_sort`, `mergelines` | sorts backwards, halves placed in 1.5 N slots | stable sort, within the scratch space |
| k-way merge of lines (2923-3125) | `ord[]`, `cur[]`, `savedline` | `mergefps` | inputs end at different times and `ord` is renumbered and shifted | smallest line next, lowest file number among equals |
| input buffer (1494-1850) | `struct buffer` | `initbuf`, `fillbuf`, `buffer_linelim`, `sort_buffer_size` | text grows from one end and the line table from the other; partial lines; files concatenated | every line once, none split or joined, table never meets text |
| keys and comparison (1960-2860) | key list | `keycompare`, `numcompare`, `compare` | locale, many options | total preorder; last resort |
| check (2862-2897) | two lines | `check` | | reports the first disorder |

The parts interact as follows.  `sort` fills a buffer, calls `merge_tree_init` and
`sortlines`, which writes to a temporary file (or the output), whose descriptor leads
to a compressor if `maybe_create_temp` forked one.  When the input ends, the list
`temphead` becomes `files[]` of `merge`.  Worker threads only exist inside `sortlines`;
temporary files are made and removed by the main thread while it is alone; children
interact by pipes and exit statuses; signal handlers share `temphead` with whatever
they interrupt.

### The other programs and the scripts

| Part | State and operations | Hard behaviour | What makes it correct |
|---|---|---|---|
| `head.c` | `elide_tail_bytes_pipe`, `elide_tail_lines_pipe`, `elide_tail_*_file`, `head_bytes`, `head_lines`: rings and lists of buffers, the file's offset | the input ends in any of the buffers; reads return what they like | the first, or all but the last, n bytes or lines |
| `uniq.c` | `check_file`: previous and current line, match count, delimiters | grouping options, first group, last group, a count at its limit | each group of equal lines once, in the form asked for |
| `comm.c` | `compare_files`: a ring of four lines per file | disorder is noticed late, and by one file's lines only | each line paired as often as both files have it |
| `fmt.c` | `get_paragraph`, `fmt_paragraph` (dynamic programme), `flush_paragraph`, two arrays that fill up | a paragraph is flushed in the middle of a word and its breaks costed again | each word once, whole and in order |
| `du.c` | `process_file`: sums per level of a tree in post-order | levels rise and fall by more than one, hard links, files that fts cannot read | each file counted once in each directory above it |
| `basenc.c` | encoders and decoders over buffers; a decoding context | a group of digits across buffers, garbage between digits, a text that is cut | decode gives back what was encoded, or says that it cannot |
| `tcpdump.c` | `dump_packet_and_trunc`, `compress_savefile`, handlers of four signals | a signal between any two statements; compressors that end when they like | no packet lost or reordered when the savefile changes; every request answered |
| `wc.c` | `wc` (four ways to count), `get_input_fstatus`, `main`'s loop over names | characters cut by the end of a buffer; a size taken from fstat, perhaps of another file | what `wc` counts of the whole text, for each file and in total |
| `fold.c` | `adjust_column`, `fold_file`: a line that is not printed yet, its column | a rest moved down and measured again; tabs and backspaces | nothing lost; lines as wide as asked for, no narrower than needed |
| `echo`, `basename`, `date`, `id`, `kill`, `realpath` | a pass over the arguments, or a call of a library | little state; the libraries are not here | |
| `readelf.c`: files | `process_file`, `process_archive`, `process_object`, the passes over an object; tables in `Filedata` and in globals | members of an archive share a `Filedata`, files share the options | an object is shown as it is shown alone |
| `readelf.c`: tables | versions, names of dynamic symbols, notes, hash tables, groups, dumps as strings and bytes | lengths and offsets come from the file, which may be cut or changed anywhere | what a sound table holds, once and in order; no read behind the end |
| `readelf.c`: relocations | `apply_relocations`, `target_specific_reloc_handling`: symbols remembered between relocations | differences of two symbols take two relocations; each machine has its own numbers | the field has the value that the relocation's kind defines |
| `objdump.c`: `-d` | `disassemble_data`, `disassemble_section`, `disassemble_bytes`: symbols sorted anew for each section, a cursor over the relocations, jumps, source files | symbols that cut instructions, skipped zeroes, code that comes back to a line | each octet and each relocation once, below its symbol, its source above it |
| `objdump.c`: `-r`, `-R` | `dump_relocs_in_section`, `dump_dynamic_relocs`, `dump_reloc_set`, the list of `-j` | two stored relocations that are one; a table that cannot be read | each set listed in order, with the lines it belongs to; `-j` warns of what no file had |
| `runAnalysis_automated.sh`, `runAnalysis_manual_neck.sh`, `buildDataset.sh`, `benchmarks/*.py` | steps on files, each of which may fail and is not checked | what is linked, verified and measured | |
| `.vscode`, bitcode | none | assets | |

The scripts stop at nothing: a tool that fails leaves the file of an earlier run, or
none, and the next step goes on.  Reading them showed, without a model:
`runAnalysis_automated.sh` does not link `sort_cu` (lines 138-145), and runs the
verifier only if that file exists, so sort is silently never verified; `benchmark.py`'s `clean` uses `os`
without importing it.

## Modules

| Module | Models | Extends or instantiates |
|---|---|---|
| `MergeTree` | the merge tree (`init_node`, `merge_tree_init`) and the room of the line table (3918-3938), as recursive functions | |
| `TreeLayout` | `sortlines` going down the tree, `pthread_create` failing anywhere: who sorts what with which scratch space | `MergeTree` |
| `InternalSortProofs` | theorems about the two recursions of the internal sort: `MergeTree` with `TreeLayout`, for any number of threads, and `SequentialSort`, for any number of lines | `TreeLayout`, `SequentialSort` |
| `AbstractSort` | what the internal sort promises: the stable sort of the lines, under `-u` the first of equal lines | |
| `ParallelMerge` | the threads of the internal sort | `MergeTree`, `AbstractSort` |
| `ParallelMergeProofs` | theorems about `ParallelMerge`: types, the queue, locks, counts, the end, nodes nobody forgets | `ParallelMerge` |
| `ParallelMergeOrder` | where the lines are: that `ParallelMerge` implements `AbstractSort` and loses no line | `ParallelMergeProofs` |
| `MCParallelMerge` | instances for the model checker | `ParallelMerge` |
| `ExternalMerge` | merges of files, descriptors, children | |
| `ExternalMergeProofs` | theorems about `ExternalMerge` | `ExternalMerge` |
| `MCExternalMerge` | scenarios | `ExternalMerge` |
| `TempFiles` | list of temporary files, critical sections, signals, exit | |
| `TempFilesProofs` | theorems about `TempFiles` | `TempFiles` |
| `InputBuffer` | `sort_buffer_size`, `initbuf`, `fillbuf` and the loop of `sort` around it | |
| `InputBufferProofs` | a theorem about `InputBuffer` | `InputBuffer` |
| `MCInputBuffer` | inputs | `InputBuffer` |
| `SequentialSort` | `sequential_sort` and `mergelines`: where each half of the lines goes, as recursive functions on any addresses | |
| `MergeFiles` | `mergefps` with its `ord` table and saved line, `check` | |
| `Keys` | `begfield`, `limfield`, `keycompare`, `compare` and the keys `main` makes of `-k` | |
| `HeadElide` | `head.c` from `head` down | |
| `Uniq`, `Comm`, `Fmt`, `Du`, `Basenc`, `Wc`, `Fold` | the program of that name | |
| `Readelf` | readelf's files, archives and passes: which table comes from which object | |
| `ElfTables` | `process_version_sections`, `get_symbol_version_string`; `DT_HASH`, `DT_GNU_HASH`: the number of symbols, histograms | |
| `Sections` | `dump_section_as_strings`, `dump_section_as_bytes`, compressed sections; `process_section_groups`; `process_notes_at` and its like, with the padding of each target | |
| `Relocs` | `apply_relocations` and the predicates on the relocations of each machine | |
| `Disassembly` | objdump `-d`: sections, blocks, lines, rows; `remove_useless_symbols`, `compare_symbols`, `find_symbol_for_address`, `objdump_print_addr` | `SourceLines`, `Jumps` |
| `SourceLines` | `show_line` with `-l`, `-S`, `--prefix` | |
| `Jumps` | `--visualize-jumps` | |
| `RelocListing` | objdump `-r`, `-R`, `-j` over files and archives | |
| `Dumps` | a job and its answer, the state of this and the next three modules; jobs of readelf and what it promises | instantiates readelf's modules |
| `Objdumps` | jobs of objdump and what it promises | `Dumps`; instantiates `Disassembly`, `RelocListing` |
| `Programs` | jobs of the coreutils and what each promises; all actions together | `Objdumps`; instantiates the coreutils' modules, `SequentialSort`, `MergeFiles`, `Keys` |
| `MCPrograms` | the jobs | `Programs` |
| `Savefiles` | tcpdump from `pcap_loop` on: rotation, compressors, signals | |
| `SavefilesProofs` | a theorem about `Savefiles` | `Savefiles` |
| `MCSavefiles` | options | `Savefiles` |

### ParallelMerge

`mem` is the line table, `node` the fields of the `merge_node`s that change, `lock` the
holder of each node's mutex, `queued`, `heap` and `waiting` the queue, `m` the locals
of each thread's `mergelines_node`, `saved` and `out` the output.  The table grows
downwards in C; here addresses grow, so that `--dest` is `dest + 1`.

Every shared access that another thread can observe is a step of its own: `Create`,
`BeginSort` and `EndSort` (`sortlines`), `Pop`, `Wait` and `Spurious` (`queue_pop`),
`LockNode`, one `Merge` or `Drain` step per line (`mergelines_node`'s loops),
`StoreDest`, `Check` (`queue_check_insert`), `CheckParent`
(`queue_check_insert_parent`, `unlock_node`), `PopEnd`, `Join`.  What is fused, and
why that hides nothing:

- A call of `queue_insert` holds the queue's mutex from its start to its end.
- A sequential sort is two steps: while it runs, its lines and scratch slots are in
  flux (`Scratch`), and at its end the stable sort is there.  Nobody else may look
  at the slots; `LinesKept` would see it.
- `mergelines_node` reads and writes fields its thread has locked, except that a child's
  thread stores `end_lo` or `end_hi`.  Each evaluation of a loop condition is a step and
  chooses what it sees of such stores (`Ends`).
- `unlock_node` right after `queue_check_insert_parent`: no other thread can tell
  the two apart.
- `PopEnd`: the node is locked and unlocked at once with no other effect.

The order of the heap is left open (`Pop` takes any node): `compare_nodes` reads
counts that others change.

The race on `*node->dest` is undefined in C.  The model takes the outcomes of an
x86-64 build: a store is seen at once, late, or not before the next lock; once seen,
it stays seen; and what was stored to the table before it is visible with it.
`StoresOncePerHold` shows that a merging thread can meet at most two values, so
"what it read before, or what is there now" is all there is.  With a load that may go
back to the older value the `!=` tests run past the end: that is the mutant
`Seen_Forgets`, which breaks `LinesKept`.  On a machine that lets loads of the same
field pass each other, or with a compiler that uses its licence, the code is wrong.

### ExternalMerge

A file is a number, and what it holds is the sequence of original files whose lines
were merged into it, in the order of their equal lines; so "the merge is stable and
complete" is a statement about sequences of numbers.  `pc` follows `sort`, `merge`,
`mergefiles`, `open_input_files` and `mergefps`; `cont` is where the program goes on
after `pipe_fork`.  `w` holds the arguments of the merge that runs, `fps` its open
files, `state` the state of each `tempnode`, and `child` what each temporary file's process is doing:
it compresses, flushes after the end of its input, decompresses, has exited, has failed.

Simplifications: the content of a line is left out; lines are read in any order, so
inputs end in any order (`EndOfInput`).  `EMFILE` is met exactly when all `fds`
descriptors are in use; a pipe needs three free ones in `maybe_create_temp` and `open_temp`.  A
compressor fails at its end only.  A decompressor ends when a reader reads all it writes, or at once if
that fits in the pipe (`fitsPipe`).  `strangers` are children that the process inherited through `exec`.

### TempFiles

The statements of `create_temp_file`, `zaptemp`, `pipe_fork`, `cleanup`,
`exit_cleanup` and `sighandler` that touch the list, the directory or a signal mask, one
step each.  A node and its file's name are one value; freed nodes and removed names are
used again.  Workers exist while lines are sorted (`SortBegins`, `SortEnds`); any thread that is
alive may call `exit` (a diagnostic of `write_line`) or be the one that a signal
interrupts, unless it blocks it.

### InputBuffer

`text` is what the buffer holds from its beginning, `lines` the table that grows from its
end, `rest` the unread part of the open file, `files` the others.  `initbuf` is one round of
its loop, in which malloc may fail; `Fill`, `Read` and `Filled` are the beginning of
`fillbuf`, one round of its inner loop, and what follows that; `Concatenate` and
`HandOver` are the two ways on in `sort`.  A byte is the end-of-line or another one; since
the lines' bytes are kept, `EachLineOnce` compares what is handed over with the lines
of the input.  Sizes are subtracted as `size_t` (`Minus`).

### Programs

The sequential programs have no interleavings, and their state matters to nobody before they
end.  A state of `Programs` is a job: a program, its input and its options.  One action per
program (or part of one) computes what the code answers, with the operators and recursive functions of the program's
own module, which follow the code's loops, buffers and early returns.  One property per program
compares the answer with what the documentation promises, defined over the whole input at once and
without the code's buffers, rings, sums by level, or dynamic programme.  A job's record is in a
sense the command line; the modules' parameters (`BUFSIZ`, `MAXWORDS`, `ENC_BLOCKSIZE`, ...) are
the sizes of the programs' buffers.

- A byte or line is what the property must tell apart: lines of sort are a key and an
  identity, bytes of head their places, words of fmt pieces of known width, digits of basenc
  numbers below 16.
- What was never written reads as `Garbage`, so that a program that prints it is seen to.
- Reads return what the job says (`packets`, cuts in every way), then nothing.
- fmt's costs are the code's, scaled as in the code, for words whose brackets and
  punctuation are flags.
- du's input is what fts returns, with the faults it reports; its hash of inodes is a set.
- wc's text consists of bytes, of which `mbrtowc` makes characters as UTF-8 would; fold's of bytes too.
- `Readelf` tracks where a table came from: a table is the number of its object, a pass prints the
  numbers of the tables it used, and a pass that would use a table that is not there shows NULL.  What
  the tables hold is the business of the other modules: `ElfTables` and the groups of `Sections` have words,
  the notes and the dumps of `Sections` bytes, and a place behind the end has no value, so that TLC stops if
  the code reads it.  Jobs are sound tables, made by definitions that lay them out, then cut off at every
  place or changed at every one.
- `Relocs` has bytes of three bits, so that carries and signs are met in few states, and the machines by name.
- `Disassembly` has a machine with instructions of one to three octets, some of which jump or have a
  delay slot: the disassembler is external, and what objdump makes of its answers (a size of 0 or -1, a target,
  the octets in a chunk) is chosen by the job.  A line is a record that says which octets, which relocation, which symbol;
  how it is printed is left out.  What libbfd finds for an address (function, file, line) is part of the job.
- A picture of jumps is a function from columns to marks and colours, per row.

### Savefiles

The callback `dump_packet_and_trunc` runs statement by statement; a signal handler may run between
any two (`Interrupted`, `info`, `cleanup`), and SIGCHLD's handler (`child_cleanup`) blocks until a
child has ended, which is why `At` asks whether it waits.  `savefiles` has every file that was
opened with the packets that were dumped to it; the clock and the packets' sizes are free.

## Runs

| Run | Instance | What it shows |
|---|---|---|
| `merge_three` | 3 threads, 7 lines, two levels of nodes below the root, equal keys | `QueuedOnce`, `NeverStranded`, `EndMeansDone`; `Implements`: the output is always a beginning of the stable sort |
| `merge_long` | 2 threads, 16 lines, three inputs, `-u` | the root may merge several lines per turn (`MAX_MERGE` is 2 at the root), so its loop races with its children's stores: `TypeOK`, `CountsExact` (with the bound on a merge), `LinesKept`, `StoresOncePerHold`; `ImplementsFairly` and `Terminates` under fairness: all lines are written, the first of equal ones under `-u` |
| `tree_layout` | 1 to 12 threads, 2 to 40 lines, all outcomes of `pthread_create` | `RegionsFit`: `LinkedInPool` (the tree is linked and within its array), `SortsDisjoint` (no two sequential sorts share lines or scratch space), children's regions adjoin, and all is within the table |
| `external_merge` | every scenario of `AllScenarios` | the safety of the merge of files and its termination |
| `temp_files` | 3 names, main and one worker | `NothingLeft` (with: nothing is removed that is still in use), `ListIsDisk` |
| `input_buffer` | one file of up to 6 bytes, two of up to 3, three of up to 2 | `EachLineOnce`, with the table apart from the text and all in one bufferful if the size allows; and termination: a buffer grows until a line fits |
| `programs` | about 100,000 jobs of `MCPrograms` | one property for each program: `SortedInPlace`, `MergedStably` (merge and `-c`), `KeysOrder`, `HeadKeeps`, `GroupsOnce`, `PairsRight`, `WordsKept`, `SizesAddUp`, `DecodesBack`, `WordsCounted`, `LinesFolded`; for readelf `FilesApart` (an object is shown as alone), `TablesShown` (versions, notes, dumps, hash tables, groups), `RelocsApplied`; for objdump `ListingsShown` (`-d`: `DisassemblyShown`; `-r`, `-R`: `RelocsListed`), `SourceShown`, `JumpsDrawn` |
| `savefiles` | all combinations of `-C`, `-G`, `-W`, and `-z` with rotation | `SavedInOrder`: each packet is in one savefile, in order, in the one it belongs to by age and size; `SignalsServed`: a request is answered, the capture ends after a signal |
| `shared_copy` | `-m -o F F F` with a compressor | violated: `Terminates` |
| `shed_decompressor` | 4 bufferfuls, 5 descriptors, a compressor | violated: `Survives` |
| `head_gap` | `head -c -N` of a pipe | violated: `LastBufferIsEnough` |
| `thin_archive` | readelf of two members of every kind | violated: `ProxiesShown` |

### Bounds

- `SUBTHREAD_LINES_HEURISTIC` is 131072 in the code and 4 here, the smallest value that
  leaves every half of a leaf at least one line.  `SIZE_MAX` is 65535: it is only reached by
  `to_merge--` at 0, after which it is tested for being positive.
- Three threads give a tree whose hi child has children of its own, and an uneven one; two
  threads with 16 lines give long merges at the root.  Four threads are beyond the
  model checker, but the theorems and `tree_layout` hold for more.
- `external_merge`: with 12 bufferfuls and batches of 2 to 5 there are up to four
  passes, with short merges of every length; with 2 to 6 descriptors every place where
  they can run out is met.  `-m` has up to six files with batches of 2 to 6, two of
  them the output, one standard input, one missing.  Children that fail come with up
  to four bufferfuls and batches of 2 or 3, enough for two passes.  `N` and `MaxTemps` bound the
  arrays only; `MaxTemps` is never the reason that a step cannot be taken.
- `temp_files`: three nodes, so that one is in the middle of the list; two threads, the number
  at which `exit` and a signal handler meet.
- `input_buffer`: a `struct line` of 2 bytes instead of 32 and 3 or 6 bytes per line (one
  thread, or three) keep the proportions and let reads of one to four bytes occur, so that reads end
  before, in and after an end-of-line.  Bounds are 7 (a line may not fit, and with 6 bytes per line
  the subtraction wraps), 20 (a file may fit partly) and 1000 (all fit).

- `programs`: sort's lines with up to 6 lines (both ways the halves fall) and 3 to 5 files of up to
  two lines; head's buffers of 2 bytes with up to 14 bytes and 11 elided ones, so that the input ends in
  every buffer and around the threshold between the two algorithms; up to 5 lines of uniq, with a
  count that stops at 4; up to 3 lines of each of comm's files over 3 values, 4 over 2; fmt's arrays of 6 words and
  12 characters, overfilled by one line and by several; all preorders of up to 5 files of du in 4 levels with one link and
  one fault; texts of basenc up to 5 bytes over buffers of 2; wc's buffers of 4 bytes, cut in every way within
  multibyte characters, and files of up to 12 bytes for its seeks; fold with widths from 2 to 5 and texts of up to 8
  characters.
- `programs`, readelf: twelve kinds of object (complete, stripped, without section headers, of another
  format, ...), in archives of up to three members, with proxies and nested archives; up to three version
  definitions with up to three names, half-words of four bits, each table cut off at every word and every word changed to ten
  values; up to two notes with and without a name, alignments 0, 4, 8 and VMS's, cut or changed at every byte; texts of up to 5
  bytes in rows of 4; up to three buckets of up to three symbols; up to three groups; sections of 12 bytes with
  every relocation type that the code names for any machine, RISC-V's in any order, and two sections for what is remembered between them.
- `programs`, objdump: sections of up to 8 octets in rows of 2 (instructions) or 3 (data), so that an
  instruction may take two rows; zeroes skipped from 4 on; up to three symbols at and around
  every edge, in three sections of which two have the same name; every list of jumps among five or six places; source files of up to five
  lines with a context of 2 lines, and three addresses in any order of lines and files; `-r`: up to three
  relocations in any order, and up to two files with any two `-j`.
- `savefiles`: 3 packets of 2 sizes against a limit of 1, a clock up to 4 against 2 seconds per file, so
  that a file is changed for age, size and both, and a ring of 2 comes round.

`CHECK_DEADLOCK` is off where the program ends: the last state of `ExternalMerge`,
`TempFiles`, `TreeLayout`, `InputBuffer`, `Programs` and `Savefiles` has no successor.  `ParallelMerge` has an explicit stutter
(`Return`) after the main thread's return, so every other deadlock is found.

### Fairness

`ParallelMerge` assumes weak fairness of `Step(t)` for each thread: a thread that can go
on is scheduled, and gets a mutex that stays free.  Spurious wake-ups have none: they may
happen or not.  No strong fairness is needed, since a thread holds a node's mutex for
bounded work and `queue_check_insert_parent` is the only one to wait for a second one,
up the tree.  `ExternalMerge` assumes weak fairness of the program and of the set of its
children, which the operating system schedules.  `InputBuffer` has one thread, which waits for nothing.
`Savefiles` assumes weak fairness of the main program and of handlers that were called; none of packets,
signals, the clock or the compressors.

### Findings

- `shared_copy`: `avoid_trashing_input` gives all entries that are the output the same
  `tempnode`.  With `--compress-program` the second `open_temp` waits (1182) for the
  decompressor that the first started, which waits for a reader: sort hangs if the file is larger
  than a pipe.
- `shed_decompressor`: when the last merge runs out of descriptors it closes (3886) an
  input whose decompressor may be running; SIGPIPE kills that, and the next
  `open_temp` dies of it, although the loop is there to carry on.
- `head_gap`: the comment at head.c:426 says that the last buffer is only reached when the input is longer than what is
  elided; it is also reached when the input is shorter by less than a buffer, and then what head.c:439
  writes is not a beginning of the input.  `HeadKeeps` holds of every other input.
- `thin_archive`: the comment at readelf.c:20474 says that the file is at the start of the ELF object when
  `process_object` begins.  `open_file` has read past the header of a proxy's file, and nothing rewinds, so no
  proxy is ever shown.  `FilesApart` says nothing about proxies, but that they leave the other objects alone.

Where the code does not do what a document or comment says, and the properties leave the case out:

- The usage of objdump (objdump.c:282) says of `--stop-address` that only data below the address is
  processed; `dump_reloc_set` (4534) lists a relocation that is at it.  `RelocsListed` says nothing of these.
- The comment at readelf.c:12557 says that saved state is discarded at the end of a section.  RL78's `value` survives
  (12745), and `R_RL78_ABS32` stores it in the next section.  The sections of `RelocsApplied`'s jobs use up what they
  compute.
- fmt.c:188 says that a line is too wide only if it is a single word.  `flush_paragraph` (798) writes what it has of a word
  that fills the array of characters and starts anew, so the word's length is that of its rest and other words fit
  behind it.  `WordsKept` has such words only at the end of their paragraph.
- The comment at sort.c:350 says that under `-u` the last of equal lines is output; `write_unique` (3430)
  writes the first, as `ImplementsFairly` says.

Observations that do no harm:
`reap_some` returns for a child that sort inherited, so each of those lets one
more subprocess than `NMERGE + 2` be started (`SubprocessBound` says exactly that);
when descriptors run out, `mergefps` gets an `ntemps` above `nfiles`, against the
comment at 2923, but only compares indices with it; with `-m` nobody waits for the
decompressor of a copied input; `size_bound - size` (1564) wraps when the bound is less than the room for
one line, which takes three threads, `--batch-size=2` and the smallest `-S`, and then the bound is ignored; the critical section of `exit_cleanup` (824) keeps
its own thread's handler out, not that of another thread, so two threads may remove the same files,
harmlessly since the names are no longer in use.

Of the other programs: uniq counts repeated lines with a test (uniq.c, `count_occurrences`) that is
never true, so it stops counting instead of dying of "too many repeated lines"; `basenc -i` keeps `=`; `fmt -c`
loses the other lines' indent of a paragraph that fills the word array, puts the indent in the middle of a
word longer than the character array, and costs breaks within one flush only; tcpdump's SIGUSR2 flushes
whatever `pdd` is, also between two savefiles; several SIGCHLD that come as one leave
zombies; with `-W` the ring may open a file that is still being compressed; a child
whose `execlp` fails flushes what it inherited of standard output.  wc seeks to `hi_pos` relative to the current
position (wc.c:291), which the comment at wc.c:247-255 does not say and which is right only at the start of a file;
`WcSeeks` leaves out the positions where that matters.

readelf: options that an object without section headers makes it give up stay given up for later files;
`program_interpreter` is not cleared between members, nor `dynamic_syminfo_offset`; members of nested archives have a `file_size` of 0; after a separate debug file, `is_32bit_elf` and
`byte_get` are that file's.  A chain of version names that is one short shows the last name twice (near 11173); an
unreadable name drops the needed one too.  A last note whose description is not padded is rejected.
`dump_section_as_strings` relies on the 0 behind the data, since it never decrements `maxlen`, and leaves out
the place of a string after a newline and something unprintable.  RISC-V's `SUB` relocations add the addend, which is 0 in the jobs; ULEB128 differences are written as plain
binary; `EM_XTENSA_OLD` is missing from the partial-in-place ones and `EM_CYGNUS_MN10300` from `is_none_reloc`.

objdump: the comment at objdump.c:2444-2455 says that the largest jumps are placed first, but the sort (2160) puts the
smallest first.  Jumps are looked for in data too, and the picture then starts in the middle of rows.  With
`--disassemble=SYMBOL`, octets before the first symbol may be taken for that symbol's and `st_size` counted from there.  Relocations of functions
that are not printed come out at the first printed instruction, and take the place of its own.  `bytes_per_chunk` of the last
instruction is used for rows of data, whose octets are then reversed, and octets of a chunk that crosses the next
symbol are left out.  `disassemble_fn` returning 0 would loop for ever in `disassemble_jumps`; returning -1 it drops the rest of its
block, whose relocations move to the next.  `index_file` does not see a last line without newline.
`show_line` does not notice another file with the same line number.  `dump_reloc_set` prints the discriminator of a line exactly if there
is none (4560-4566), the reverse of `show_line` (1785); `RelocListing` does so too, and `RelocsListed` asks only that a line is
shown again when the discriminator changes.  With `-R` alone `-j` looks
for no section, so that it warns of all; `-R` of a file that is not dynamic ends the program, so that later
files are not shown.

## Proofs

Seven modules hold theorems.  Each theorem is for every value of the constants: any tree, any number
of lines, files, threads or descriptors, any input, any schedule.

| Theorem | States |
|---|---|
| `ParallelMergeProofs!TypeCorrect` | `Spec => []TypeOK` |
| `ParallelMergeProofs!QueuedOnceHolds` | `QueuedOnce`: no node is in the heap twice or in the heap and popped at once, so the heap's room (`2 * nthreads` entries) is enough |
| `ParallelMergeProofs!StoresOnce` | `StoresOncePerHold`: `[][...]_vars`, children store a merging node's `end_lo`, `end_hi` at most once each |
| `ParallelMergeProofs!CountsExactHolds` | `CountsExact`: `nlo`, `nhi` are the lines that are still to come |
| `ParallelMergeProofs!EndMeansDoneHolds` | `EndMeansDone`: the end is queued once, when nothing is left |
| `ParallelMergeProofs!NeverStrandedHolds` | `NeverStranded`: no node is forgotten and no wake-up lost |
| `ParallelMergeOrder!ImplementsAbstract` | `Implements`: the refinement; what is written is always a beginning of the stable sort, under `-u` of the first of equal lines |
| `ParallelMergeOrder!LinesKeptHolds` | `LinesKept`: each line is written, still to be sorted or in exactly one slot |
| `InternalSortProofs!RegionsFitHolds` | `RegionsFit`: wherever `pthread_create` fails, lines and scratch arrays are divided among the sorts, merges find their lines, and all is within the table |
| `InternalSortProofs!TreeAsAssumed` | `merge_tree_init(N, M)` is `WellLinked`, `WellSized` and `WellPlaced`, in an array of `2 * N` nodes and a table of `TableRoom(N, M)` lines, for all `N` and `M` |
| `InternalSortProofs!SequentialSortRight` | `sequential_sort` leaves any `n >= 2` lines stably sorted where its caller wants them, and stores to nothing but the lines and the half (or all) of `n` lines of scratch space |
| `TempFilesProofs!ListIsDiskHolds`, `NothingLeftHolds` | `ListIsDisk`, `NothingLeft` |
| `ExternalMergeProofs!StableOrderHolds` | `StableOrder`: over all passes nothing is lost, doubled or put out of order |
| `ExternalMergeProofs!InputNotTrashedHolds` | `InputNotTrashed`: the output is opened only when it is no input any more |
| `ExternalMergeProofs!SubprocessBoundHolds`, `FailureSeenHolds` | `SubprocessBound`, `FailureSeen` |
| `ExternalMergeProofs!SurvivesHolds` | `~Compress => Survives`: without a compressor, `sort` with three descriptors never gives up |
| `SavefilesProofs!SavedInOrderHolds` | `SavedInOrder`: however the rotations by time and by size meet, each packet is in one savefile, in order, and names repeat only when `-W` has gone round |
| `InputBufferProofs!EachLineOnceHolds` | `EachLineOnce`: however reads cut the files, malloc fails, the buffer grows and files are concatenated, each line is handed over once, in order; the computed size is enough; bytes never reach the table |

### Assumptions

They are those of the modules, and nothing else:

- `SizesAssumption` (the constants are numbers, at least two lines), `TreeAssumption`
  (`WellLinked(Tree)`: parents, children and levels agree) and `LinesAssumption` (`WellSized(Tree, NLines)`:
  the root has all lines and a half of a node is as long as the child that sorts it).  `PlacesAssumption`
  (`WellPlaced(Tree, NLines, TableLines)`: a child has its lines one region after the half of its parent that it merges
  to, and the table has room for what is merged) and `InputsAssumption` (keys are numbers; what matters is that
  they are totally ordered) are needed for the order of lines only.  What is assumed of the tree is no restriction:
  `TreeAsAssumed` proves all three of the tree that `merge_tree_init` builds, with the room that `sort()` gives
  the table.  `MergeAssumption`: `MAX_MERGE` is a number; the
  provers know nothing of `^`.
- `FilesAssumption`: names are distinct and there are finitely many.
- `BufferAssumption`: sizes are numbers, a line's room is at least `struct line`, and inputs are sequences of files, which
  are sequences of bytes.
- `ExternalAssumption`: the types of the options; batches of at least two (`specify_nmerge` refuses less); and
  that when `sort` merges its own temporary files, none of them is the output.
- `SavefilesAssumption`: `-C`, `-G`, `-W` and the sizes of packets are numbers (tcpdump refuses others), 0 without the option.

### ParallelMerge

`TypeOK` is inductive, with one lemma per group of actions.  `QueuedOnce` is not:
that `EndSort` inserts its node needs that the node was never queued, and that a spurious
wake-up does no harm needs to know where a waiting thread is.  `QueueInv` adds four parts:
`WaitersWait` (whoever is in `waiting` is at `wait`), `UncalledIdle` (a node that no
`sortlines` has reached is not queued, and not split), `NotYetAtHome` (a thread that has not
been created is at its own node) and `SortersAlone` (a node that is being sorted is sorted by one
thread and has not been queued).

The counts need more.  The argument, in the order of its parts:

1. `LockInv`: whoever merges a node holds its lock, and nobody else does (`OnlyHolder`).
2. `SeenFresh`: what a merging thread has read of `end_lo` or `end_hi` differs from what is there only
   if the child's thread stored it since, of which there is one.  `StoresOnce` follows.
3. `CountInv`: `CountsOK` (for each half, the lines that are there, those a thread holds in its locals and those the
   child still owes add up), `SeensOK`, `MergesOK` (how far a thread that merges may be), `MergersOwe`, and
   what a node is before its first use (`UnusedNew`, `SortedApart`, `CalledLarge`, `SortersNew`, `WorkersUse`,
   `QueuedLeft`).  The step that matters is `MoveCounts`: a line moves from a node to its parent, which somebody else may
   hold.
4. `EndOnce` and `EndComes`: the end is in the heap or popped at most once, exactly after the root's last line.
   Being the last of all needs that no node has lines left when the root has none: a node whose lines were all
   merged by the root has none left itself, since each node's lines are its parent's to come (`AllDone`: the
   undone node of least level would have an undone parent; `LeastElement`, from `WellFoundedInduction`).
5. `Attended`: a node that could be merged and is not queued is about to be checked by the thread that made it so.  `Woken`:
   if threads wait and a node is in the heap, somebody is awake.

The theorems of `ParallelMergeOrder` need to know which lines are where.  `OrderInv`, on top of these counts, says

- `HalvesOK`: the lines of each side of a node are consecutive lines of the input.  Of a side, the node has
  `Taken` lines and `Come` have been there; the line of rank `r` among the lines of the side, for `r` in between, is in the slot
  that the address of the side and `r` give (`Placed`), and the pointer is at the slot of rank `Taken + 1`;
- `CutsOK`: what a node has taken of one side comes before what it has not taken of the other;
- `SortersOK`: the lines that a thread is to sort are where they were read to, its sorted copy has each line at its
  rank, and nothing of them came to a node above (`FreshOK`);
- `DrainersOK`: who copies the rest of one side has nothing left of the other;
- `OutOK`: what is written are the first lines of all, under `-u` those of them that are the first of their key.

`Rank` counts the lines before a line, so "the stable sort" needs no recursion.  `MergeRank` is what a merge rests
on: the first of what is left of both sides has the next rank among the lines of the node.  That no slot in use is
written to (`LeafSlots`, `DestSlot`) follows from three facts: the tree is laminar (`Laminar`), regions of
different levels are apart, and no line of a node that is being sorted has come to a node above.

`ImplementsAbstract` follows from `OutOK`: each step of the root writes the next line of all.  For
`LinesKeptHolds`, `HasMerged(n, b)` says by ranks that node `n` has merged line `b`.  A line that a node has merged was
merged by all nodes below that had it (`MergedBelow`), so a slot in use holds a line that its node has still to
merge and the child has merged (`Has`), and of such nodes there is at most one for each line (`HasOnce`) and, unless
the line is written or being sorted, at least one (`HasSome`: the least node that has still to merge it).  This needs one more
invariant, `LeavesBusy`: a node that has been called and not split is sorted, or some thread sorts it.  Reading the table is then a
bijection from the slots in use to the lines that are neither written nor being sorted.

### The merge tree

`init_node` is a recursive function, which the provers only know as a `CHOOSE`.  So `Recursion` first shows that a function can be
defined by steps whose arguments have a smaller measure, and `StepwiseUnique` that there is one at most, both by the least
counterexample; with the number of threads as the measure, `init_nodeIs` is the equation of `init_node`, and `multIs` that of the loop
that counts the regions.  Then

- `init_nodeBuilds`: the nodes of a subtree with `k` threads are `2 * k - 1` consecutive ones, the first is the one
  that was asked for, each has halves that differ by one line at most, children one region further on (`Fine`) and, but for the
  first, a parent before it (`HasParent`).  By the least number of threads: a subtree is a leaf, or a node and two subtrees
  (`BothSubtree`), and what holds of nodes in a subtree holds of them in the tree;
- `AllNumbered`: the lines of a node at level `v` are in region `v`, and the node with `k` threads has `(k - 1) * s` less than all threads,
  where `s` is the number of threads that the loop counts when it comes to region `v` (`Threads`).  So a node that has
  children has a region left for them (`AllPlaced`), although the halves are rounded up at each level;
- `LayoutInv`: the tree is the one that was built, and the sorts that run divide the lines among them.  A step of `sortlines` replaces a
  node by its children, which divide its lines (`PartsDivide`).

`RegionsFit` follows since each node sorts a part of the lines with the same part of the next region as scratch space
(`PartIs`); with one thread, half a slot for each line is enough (`OneScratch`).

### The sequential sort

`ParallelMerge` takes `sequential_sort` as one step that sorts stably.  `SequentialSortRight` says that it does, for all
`SortArguments`: the memory is there, and the lines and the scratch space do not overlap, as the comment above the function
asks and `RegionsFit` has it for the calls of `sortlines`.  `StablySorted` needs neither recursion nor counting: some function
`order` lists the lines so that each is `Ahead` of those after it, less or equal and earlier; as no line is ahead of itself, none is
listed twice.

- A merge: `mergelinesIs` unfolds its loop.  After `a` lines of LO and `b` of HI (`Progress`), they are listed in
  order, ahead of the next of either half (`Chosen`), stored before `t`, and what is left is where it was (`Stored`): place `a + b + 1`
  is that of no line of HI still to come, since LO has one left (`StoreOne`).  When LO ends, the rest of HI is in its place (`LoopEnds`).
- The recursion: `sequential_sortIs` is its equation, by `Recursion` with the number of lines as the measure.  `HalfPlacesHold` is the
  arithmetic of the 1.5 n lines: each call has room, the second leaves alone what the first has sorted, and LO is sorted to where
  no line is merged to.  `DivideRight` puts the orders of the halves together (`Joint`), of which the merge makes one (`MergedSorted`).
- The theorem: by the least number of lines for which it could fail.

### TempFiles

`Inv` says that there is a sequence of addresses, from `temphead` to the last node, without repetition
(`ListInv`), such that the pointers follow it (`Linked`), the locals of each critical section say where in it they are
(`Placed`), and each handler that walks it has removed everything before its place (`Swept`).  `Control` says who
can be where: signals are blocked in critical sections, and only the end of `sort` has threads.  The
sequence is quantified, not computed, since `ListIsDisk` speaks of `From`, the chain that `CHOOSE`
picks: `SameChain` shows that there is only one chain, by the least place at which two could differ.

### ExternalMerge

- `ArrayInv` says which slots of the array are live (hold temporary files to be merged and removed) and which hold what
  `avoid_trashing_input` and `mergefiles` have still to look at, statement by statement (`Control`, `Arguments`, `Numbers`,
  `Layout`, `Clean`).  That no file of the user is removed, no temporary file is in two slots and `InputNotTrashed` follow.
- `KidsInv`: `nprocs` is the number of children in the table (`Counted`), there is room for those that the next statement may start
  (`Room`), a failed child is not forgotten (`Noticed`).
- `OrderInv`: there are cuts `c` of the order of the input such that slot `x` holds what lies between `c[x - 1]` and
  `c[x]` (`Cuts`); a merge of neighbours removes the cuts between them.  The cuts are exhibited at each step.  What a merge
  writes is `FlattenSeq` of what its files hold, which the community modules define by recursion: the lemma `Flattened`
  exhibits the function that the recursion defines, and shows that there is no other by the least place where one could differ.

- `SpareInv`, for `sort()` without a compressor and with at least three descriptors: every slot is a temporary file
  (`Start + ntemps = nfiles`), none has a child, and the files that are open, with the one that is written, are at most as many as
  the descriptors (`Spare`).  `mergefiles` so has opened enough when it fails, and the input that the last merge closes
  is the one descriptor that its temporary file needs.  `Used` is a fold over the open files; `UsedIs` shows by
  the least counterexample that it is their number.

`StableOrder` follows from the first and the third, `Survives` from the first and the last.  `Survives` is proved without a
compressor only: with one it is false, as `shed_decompressor` shows.

### Savefiles

`SaveInv` says

- `Cuts`: the savefiles cut the capture.  There are numbers `c` such that savefile `f` has the packets after `c[f - 1]`, up
  to `c[f]`, and the last cut is what is written: the packets that were counted, without the one that the callback has;
- `Names`: a period's savefiles have the time of its beginning in their names, later periods a later one, and within a period the numbers
  go up by one, or down by `-W - 1`.  This is why a name comes again after `-W` savefiles and not earlier;
- `Periods`: without `-C`, each savefile but the first is a rotation by time, and counted;
- `Fitting`: between the two rotations and the writing, the packet's time is within the current period, and the
  current savefile has room.

What follows from the names about two savefiles is `NamesGoRound`.  The joined packets are `FlattenSeq`, their size is
a fold, both recursive in the community modules: `JoinedNumbers` and `SizeIs` exhibit the functions that the recursions define and
reason about them by the least counterexample.

### Input buffer

`BufInv` says

- `Tabled`: the table has the lines of the text up to its last end-of-line, each from where the one before it ends.  So what is not in
  the table is one line that has not ended;
- `Places`: files are opened where the text is whole (it ends with an end-of-line, or is empty), and what `left` is
  when `fillbuf` is called: all of the text when files are concatenated, what follows the last line otherwise;
- `Handed`: the lines that are handed over, those of what is kept of the text and of the rest of the open file, and those
  of the other files are the lines of the input.  A line cannot be lost or split because lines are cut at the same
  ends-of-line wherever whole text is joined to what follows (`LinesConcat`), and an end-of-line that `fillbuf` adds changes no
  lines (`LinesEnded`);
- `Fits`: text and table do not meet, since `readsize` leaves room for a line per byte;
- `Roomy`: with the computed size, what is used is at most what was counted for the files opened so far.  So the rest of a file is
  read at once (`EndsAtOnce`), the buffer neither grows nor is handed over early, and the next file is concatenated.

The lines are defined by the places of their ends in increasing order: `Enumerates` says what such a sequence is, and there is just
one (`SortedUnique`).  `sort_buffer_size` is a fold and `FlattenSeq` a recursion of the community modules; as above, the lemmas `BufferSize` and
`Flattened` exhibit the functions they define.  `Minus` matters to no step: whether or not the subtraction wraps, the size is the bound
or grows by what is counted.

### Only model-checked

- Liveness and `ENABLED`: `Terminates`, `ImplementsFairly`, `SignalsServed`.
- What the loops of the sequential programs compute for every input (the properties of `programs`; of `SortedInPlace`, `SequentialSortRight`
  proves the same in its own words): they are recursive operators over sequences, which the provers cannot expand.

## Not modelled

- Comparison by locale, number, month and version in `Keys`: keys are texts.  I/O errors other than a
  failing open, fork or child.
- The memory of lines in `MergeFiles`: lines are values there, so that a saved line that is overwritten when its
  buffer is filled again (`check`, `mergefps`) would not be seen.
- The options of each program (before the neck) are constants; what `main` makes of them is only modelled for
  sort's keys.
- basenc's base64, base32 and z85: only the bases whose digits have a power of two of bits within a byte are there.
- fts, the inode hash, strftime, pcap and the locale's tables are external.
- Of readelf: the headers, unwinding tables, debug information, dynamic section and attributes, which are printed
  field by field; a group's `sh_entsize` of 0, which divides by zero.  Of objdump: headers,
  symbol tables, dumps of contents, stabs and debug information; `sign_extend_vma`, `--adjust-vma`, functions whose size
  reaches beyond their section, NULL in a list of relocations, archives within archives.  libbfd and the disassemblers are external.
- tcpdump without `-w`, its filters and privileges, SIGUSR2.
- `echo`, `basename`, `date`, `id`, `kill`, `realpath`: a pass over the arguments, or calls of a library.
- The scripts: a straight line of tools that are not in the repository.
- The specialiser itself: its sources are submodules without files.

## Plan

Every safety invariant of the components with concurrency, failures or buffers is proved.  What is left is to
state the other sequential programs' loops as recursive functions where that serves the reader, and to prove their properties as those of `MergeTree`
and `SequentialSort` are: `Recursion` and the least counterexample are enough for a definition with a measure.
