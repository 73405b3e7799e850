# A verification project for ParchTestbench

ParchTestbench is the user-space half of the Parch operating system: the tool
that builds its file system image, the C and Rust libraries programs are linked
with, and the programs (init, shell, small utilities, tests). The kernel is not
in this repository. Where a behaviour depends on it, the kernel is modelled from
the way the code here uses it and is marked *external*.

## Inventory

| Part | State it keeps | Operations | What is hard about it |
|---|---|---|---|
| Image builder, `parchfs/parchfs.cpp`, `.hpp` | two block bitmaps, an inode bitmap, the inode list, pointer blocks, directory blocks, counters in the superblock; recursion over the host tree | `get_blkno`, `add_dentry`, `write`, `alloc_inode`, `alloc_blk`, `make_dir`, `make_file`, `make_fs` | directory growth while probing for a free slot; three levels of block pointers filled by loops with different bounds; running out of blocks or inodes half-way; the inode bitmap has more bits than there are inodes |
| C allocator, `usrlib/parch/utils.c` | circular sorted free list, `freep`, the heap's end | `tb_malloc`, `tb_free`, `morecore` | a list traversed from an arbitrary place and changed under the traversal; joining on two sides; 32-bit truncation; failure of `tb_sbrk` |
| C line input, `usrlib/parch/basic_io.c` | the caller's buffer | `getc_noecho`, `tb_getc`, `tb_getline` | a bounded buffer with old contents; a line longer than it |
| C formatted output, `usrlib/parch/basic_io.c` | a number being cut into digits | `tb_printf`, `vfprintf`, `put_int`, `puts`, `putc` | the smallest number; one call of the kernel per character, whose answer is dropped |
| Rest of the C library, `usrlib/parch`, `usrlib/header` | none | strings, generated stubs | the flag that tells an error from a result is lost |
| Linux shim, `usrlib/linux` | none | the same API over libc | differences of flags and of error values |
| Rust line input, `usrlib_rust/src/fmt_io.rs` | a partly decoded character, the line so far | `getchar_noecho`, `getchar`, `get_line` | bytes arrive one at a time, may be malformed, may stop; editing and echo must agree |
| Rust system calls, `usrlib_rust/src/syscall.rs`, `utils/` | none | a wrapper per call, `do_syscall`, numbers, error numbers, modes | the same registers as the C stubs; error numbers the table does not have are unwrapped |
| Rust startup, heap, printing, `lib.rs`, `allocator.rs`, `fmt_io.rs` | a static heap of 32 KiB (third-party allocator) | `_start`, `strlen`, `on_alloc_error`, `print` | 16 arguments at most; a write that fails is unwrapped, by the panic handlers too |
| init, `parch_utils/init_proc/init.c` | none | open, fork, exec, wait for ever | failure of fork or exec |
| Shell processes, `parch_utils/shell/src/main.rs` | descriptors, the child waited for; one instance per shell | prompt, read, `cd`, `help`, `exit`, `shutdown`, `reboot`, run a program with redirections | a child that fails to exec *returns* and becomes a second shell; closing before opening; scripts; shared file positions |
| Shell command line, `Command::parse` | none | parse | positions counted in different strings; several signs on a line |
| cat, mkdir | cat: the whole file in a vector | open, read until nothing comes, print; mkdir | portions that cut characters; the heap; panic handlers that loop, or panic themselves; stdout may be the file that is read |
| ls | a buffer of 128 entries | getcwd, open, getdents, print a row each | what happens when a call is refused; the exit code |
| m5, run_test | | a Makefile; a script | |
| Test programs | none | test the kernel | fork, signals, pipes |
| Makefiles, linker scripts, generators | | | |

How they interact: the builder runs on the host and produces the image that
contains the programs; init opens the terminal three times and forks the shell;
the shell forks a child per command, which redirects and execs; a script is run
by the kernel starting the shell with the script's path; shells, nested shells
and programs share the file positions of inherited descriptors; the shell reads
through `get_line`, C programs allocate through `tb_malloc` and print through
`tb_printf`; what a command reports to the user passes from `exit` through
`waitpid` to the shell's prompt.

## Modules

| Module | Models |
|---|---|
| `ParchFS` | the image builder, one step per host entry, per loop iteration, or per block taken |
| `ParchFSProperties`, `MCParchFS` | its properties and the model checked |
| `FsTree` | abstract specification: a reader sees a tree that grows and never changes |
| `ParchFSProofs`, `ParchFSTree`, `ParchFSCopy` | proofs about it, each over the one before: types, counters, who owns a block and which blocks an inode has; what the directories hold; what a reader finds, and how many blocks a file takes |
| `INodeTable`, `MCINodeTable` | the builder past its last inode, where nodes lie over the bitmap |
| `INodeTableProofs` | proofs about it |
| `Malloc`, `MCMalloc` | the C allocator, one step per loop iteration |
| `Heap` | abstract specification: what malloc and free promise |
| `MallocProofs` | proofs about the allocator |
| `Shell`, `ShellProperties`, `MCShell` | init, shells, scripts and programs as processes |
| `ShellProofs` | proofs about them |
| `ShellParse`, `MCShellParse` | `Command::parse` on lines of characters |
| `LineInput` | `get_line` of the Rust library, one step per byte |
| `CLineInput` | `tb_getline` of the C library, one step per byte |
| `Readers`, `MCReaders` | both on the same input |
| `ReadersProofs` | proofs about them |
| `Syscalls` | the wrappers of the Rust library and the stubs of the C library: registers, numbers, how an answer is decoded |
| `Programs` | a command from exec to the reported exit code: startup, cat, mkdir, printing, panics, the heap |
| `ProgramsProperties`, `MCPrograms` | its properties and the model checked |
| `ProgramsProofs` | proofs about it |
| `CPrintf` | `tb_printf`, one step per character of the format or digit |
| `Ls`, `MCLs` | ls on top of it, and single calls of `tb_printf` |

### ParchFS

The builder is sequential, so the interest is in long sequences. Offsets and
sizes are in units of one directory entry, which the block size is a multiple
of. `todo` holds the calls a host entry leads to (`add_dentry` for ".", ".."
and the name, `write` for a file), `stack` is the recursion of `make_fs`.
`blk_no` is the pointer part of an inode; `table` is what a block holds when it
is read as an array of pointers; directory entries and file contents are kept
per block as well, so that a block given out twice would show. `get_blkno` is
split at each allocation: its pre-filling loops take one block per step, in the
order of the code, including the scan of the double-indirect area that allocates
one block on every call. Every `panic` and failed `assert` is a `status` in
which the program has ended. Host names longer than an entry, files larger than
the image, and a full bitmap are all among the inputs.

Assumed of the host: the kernel image ends and the reserved area starts at page
boundaries, and the data area of `parch.bin` is zero (it is freshly created). In
`ParchFS` the number of host entries stays within the inode list, or the builder
is past its end and stops in status "overrun"; `INodeTable` follows what then
really happens in memory: node `INODE_COUNT + i` is a part of the bitmap, and
clearing that node clears bits of inodes in use. The size of the bitmap is
chosen in the initial state, so that the same module shows what a bitmap as long
as the list would do.

### Malloc

Addresses count headers of 16 bytes, `ptr` and `size` are the two fields of the
header at each address (old contents stay, as in memory). A step is an iteration
of the search, an iteration of the scan of `tb_free`, or the straight code after
one. `tb_sbrk` (external) extends the heap without gaps or refuses, at any call.
`NUnits` wraps at 2^64 and `CoreUnits` at 2^32, by the constants `WORD` and
`NU_WORD`.

### Shell

`pc` says which system call a process makes next. A step ends at a system call
other processes can notice; what a process does to its own descriptors in
between is part of the step. The kernel is external: fork copies descriptors,
open takes the lowest free number, exit leaves a zombie, `waitpid` frees it.
Each of fork, open, close, exec, read, write and the ioctl of the power device
may fail at any time, except that exec of an existing file succeeds; init's own
three opens may, and its shell then starts without a stdin or a stdout. Where
the shell unwraps the answer (`getcwd`, the read and the close of the clock, the
power device, every `print!`) the process ends; a panic on a closed descriptor
panics in the handler again and again, which is an end, too. A file position is
shared by all descriptors from one open (`left[opener]` counts the lines after
it; what is left is forgotten with the process that opened the file, and so is a
line with the command it was). Lines are abstracted to what the shell will
do with them: built-in, unparsable, causing an unwrap to fail, or a program
(existing, a script, or missing) with or without redirections. Exit codes, the
working directory and the text printed are left out.

`waitpid` fails for a number that is no child's, and the shell then reports an
error (`Wait`). `EveryoneAwaited`, proved, says that this never happens, and
`waitpid` for a child that is there is assumed not to fail.

### ShellParse, LineInput, CLineInput

`ShellParse` keeps `find`, `split_at`, `strip_prefix` and `trim` on sequences of
characters, counted from 1, because the errors are in the positions. The
recursion of `parse` is a recursive operator, so this module is for TLC only.
`LineInput` decodes real byte values; stdin (external) delivers pieces of input
at any pace, a file may end in the middle of a character, a read may fail
anywhere and every echo may be refused: an error of a read is returned by
`get_line`, a refused echo is a panic, and the line begun is dropped (`GivesUp`).
A character is one column of the screen: wide ones, and what a terminal does
with the DEL that is echoed before the rubbing out, are abstracted.
`CLineInput` keeps the buffer of `tb_getline` from call to call, so that a
forgotten NUL would show an older line; a read that fails ends a call like the
end of a line, and the next call goes on (`ReadRefused`). Its echo is left out
(the answers to it are not looked at). `Readers` delivers
the same bytes to both (no program calls `tb_getline`; what the two libraries
promise is the same).

### Programs

`Programs` composes the child of the shell at its `exec`, `_start`, `cat` or
`mkdir`, `print` and `do_syscall` with a kernel (external). `trap` is the call a
program has made, with the registers `Syscalls` puts it in; a step of the
program leads from one answer to the next call, a step of the kernel answers or
refuses. A refusal leaves any of the numbers in `Refusals` in a0, known to the
table or not, and may come at any call but exit. The launch that fails is taken
up to the point where the child prompts; from there it is a shell like those of
`Shell`, and here it only ends, or does not.

What is abstracted:

* A byte of a file or an argument is one of four: a character of its own, the
  two halves of another, and NUL. `Lossy`, what `from_utf8_lossy` prints, has an
  entry for each byte. The text of messages is a word per piece, and a panic
  prints two pieces (the real number depends on the message; what matters is
  that each may be refused).
* The heap is a number of bytes, of which the vector of cat is what counts; an
  allocation that does not fit fails, and one that fits may (the third-party
  allocator keeps powers of two). The small allocations beside it (paths,
  argument vectors) are left out.
* The kernel takes a write whole or refuses it. It ends a program when a panic
  within panics has used up the stack, after `MaxPanics`; the code reported then
  is `Killed`, which is neither 0 nor -1.
* When stdout is the file cat reads (`cmd.self`), what cat prints makes the file
  longer, and later reads find it.
* `Command` has the path as the first word, as `exec_raw` passes it on.

### CPrintf, Ls

A step of `CPrintf` takes a character of the format or makes a digit; `Puts` is
the writes a step makes, of which the kernel may refuse any: the library does
not look, and goes on with the next (`console` is what arrived, `refused` counts
the writes that did not). A number that needs more digits than `put_int`'s
buffer has room for would be written below it (`conversion` is then "overrun").
Only one process prints. Registers are of a small width (`WORD`, and `NARROW` for a u32).
A string is a sequence of characters or words, a pointer is 0 or not.
`Ls` chooses the directories behind the name it is told, the one it is in, and
whatever name its buffer held before `getcwd`; refuses `getcwd`, `open` and
`getdents`; and, as main ends without a return in a freestanding program, ends
with whatever is left in the register. Every call also adds to `meant` the text
it is to show, numerals by their positional definition (`Numeral`) and not by the
loop of `put_int`. A second kind of program makes one call with any conversion.

## Runs

| Run | Shows | Bounds, and why they are enough |
|---|---|---|
| `fs_tree` | types, counters, assertions, shape of directories; the image read back is the host tree (`FsTree`) | two short names and one long one, blocks of 2 entries with 1 direct pointer, so that "." and ".." fill the first block and any child grows the directory into the indirect area; 5 inodes and 16 blocks, so both run out |
| `fs_files` | ownership of blocks, the double-indirect scan, space taken, termination, the image read back | file sizes on both sides of each limit (direct, indirect, first and second table of the double-indirect block); 25 blocks, so that images run out in the middle of each of the three areas |
| `inode_overrun` | sound up to the overrun; the full bitmap is reported only if it is as long as the list, and then no inode is free | 6 inodes, nodes of 6 bits, and bitmaps of 6, 12 and 18 bits: none behind the list, one node, two nodes, of which the second lies over its own bit |
| `inode_marked` | **violated**: with more bits, an inode in use loses its mark | 8 inodes, 18 bits |
| `malloc` | the free list is sorted and joined (`ListInOrder`), nothing of the heap is lost or held twice, calls return, callers see what `Heap` promises | a heap of 8 units, requests of 1, 3 and 4 units, at least 3 units from the kernel at a time, and truncation at 4 units, so that the largest request has to ask the kernel twice |
| `malloc_nomem` | **violated**: the kernel's refusal is not recognised | error number 12 |
| `shell` | who has the terminal, who waits for whom, where stdin and stdout lead; a shell that reads a file ends | init and three more processes: a shell, a script or nested shell under it, and a program under that; two lines typed (`MaxTyped`) and up to two in every file (`MaxLines`), so that a nested shell and the shell that waits for it each read one of the same script; descriptors up to 3, so that an unclosed device uses up the table |
| `parse` | commands with at most one redirection are read as meant; nothing is lost from an accepted line; no pipe is accepted, and both redirections end the shell (`SignsDecide`) | written commands: names of one and two characters, up to two arguments; raw lines: all of up to 6 characters over five |
| `parse_grammar` | **violated**: of the grammar the comment gives, pipes are refused and both redirections panic | the same commands, with two redirections or a pipe |
| `input` | `get_line`: lines and echo are what was typed, and however input stops no line that was cut off is handed out (`LastLine`); `tb_getline`: the same lines, and longer ones in parts without loss | up to 3 pieces: first and last characters of each length, CR, LF, DEL, Ctrl-D, 0xff, and broken input (cut characters, surrogates, numbers past the last character); a C buffer of 4 bytes, so that a character can be cut; reads and echoes of `get_line` fail anywhere, one read of `tb_getline` does (`MaxRefused`) |
| `programs` | words arrive in main up to a NUL; cat ends with 0 only after it has shown the file as it was; what mkdir's code means; the shell prompts again, or why not; the two libraries fill the same registers | at most 3 arguments and up to 4 given; a buffer of 2 bytes, files of up to 3 over three bytes, so that characters are cut and two reads are needed; a heap of 5 bytes, so that the vector just fits, or its copy does not; two panics fit the stack; refusals: ENOENT, the gap at 41, and a number that is not negated |
| `ls` | what is printed is what was meant: every conversion, every number; of it is missing only what a refused write took; no number leaves its buffer; ls means the first entries of the right directory or a complaint | registers of 6 bits, u32s of 4: numbers of one and two digits, the smallest one, truncation; a number buffer of 4 bytes, which "-32" and its NUL fill; directories of up to 3 entries for a buffer of 2; up to 3 refused writes |

No symmetry is used. Deadlock is not checked where the system really stops:
the builder ends, a heap's user need not call again, the machine is turned off
or nobody types, a line is parsed, the input is over, a command is reported.

## Fairness

* `ParchFS`: weak fairness of the next step. The builder is one sequential host
  program; while it can go on, it does.
* `Malloc`: weak fairness of the steps inside a call, none for making a call.
* `Shell`: the kernel does not idle while a process of the session can go on,
  init or another; nothing is said of which, as never more than one shell or
  program can (`OneForeground`). A shell that reads the terminal does not count,
  since nobody need type. Programs the shell starts are assumed to end: they can
  read only so many lines. (cat after a panic does not end: `Programs` says
  when.)
* `Programs`: weak fairness of everything but the nested shell: the kernel
  answers every call and runs the program, and the only program running here is
  the one the shell waits for. A nested shell reads the terminal and need not
  end.
* `Ls`, the line readers, `ShellParse` and `INodeTable` have safety properties
  only.

## What is proved

All proofs are for every value of the constants that satisfies the named
assumptions: the geometry of the image (at most as many blocks as two levels of
tables have pointers, 2^19 of 2^20, which is what ends the scan without a
bound); a bitmap behind the inode list that is as long as the list or reaches
past the node lying over its own bit (`RoomAssumption`: node 8192 + 4 of 32768
bits); any heap above the header `base`, any sizes asked for; a set of
processes with init among them, at least four descriptors;
octets on the wire and a C buffer of at least two bytes; any commands, sizes of
buffer, heap and stack, and any refusals.

* `ParchFSProofs!TypeCorrect`: the builder's variables keep their types; the
  steps are followed handler by handler.
* `ParchFSProofs!CountersHold`: the superblock's free counters and the bitmaps
  stay the same distance apart. The argument needs that a bit that is set was
  clear (`first_available`) and cardinalities of finite sets.
* `ParchFSProofs!NoSharedBlock`, `NoDanglingPointer`, `NoLeak`: each block is
  owned once, each pointer leads to an allocated block, each allocated block is
  reached. None of the three is inductive: a fresh block could be referred to by
  a stale pointer, or hold old pointers itself. The invariant `Ownership` adds
  that the two block bitmaps agree and contain everything reserved, that
  blocks and inodes not handed out are zero, and that the calls still to do are
  about inodes in use.
* `ParchFSProofs!ScanNeverOverruns`: the scan of the double-indirect area stops
  inside the first table. The pigeonhole: if every table were full, numbering
  the blocks behind the pointer would map more places than there are blocks,
  each owned once, into the blocks that are not reserved.
* `ParchFSProofs!AssertsNeverFire`, from the invariant `BlockWalk`: blocks that
  were never handed out, block 0 among them, read as tables of zeros
  (`NullTable`), the calls to do and the recursion are about directories where
  they must be (`DirsAreDirs`), and each loop of `get_blkno` starts when the one
  before it is through (`Walk`: which block numbers have a block at which stage).
* `ParchFSTree!DirectoriesAreTree`, from `Shape`. Between host entries the
  statement is about all directories, but a step changes one pointer or one
  place of one block. `Read` therefore forgets the blocks (a position without a
  block reads as no entry); taking a block changes no position, since it was
  zero, and storing an entry changes exactly one, since blocks are owned once.
  Over positions, `DirTree` says: entries fill the first positions of a directory
  (`NoHoles`, with how far `add_dentry` has probed, `Probing`), each names a later
  inode of its own type (`EntriesTruthful`), no inode has two names (`NamedOnce`),
  and the last inode, and it alone, is still without a name while its calls are
  under way, which are exactly those of `make_dir` or `make_file` (`Making`).
* `ParchFSCopy!CopiesTree`: the builder implements `FsTree`. The invariant `Image`
  adds two things to `Shape`. `Files` says how far each file is copied, by chunk:
  all of it, except for the file being written (`Growing`), whose chunks before
  the position of the writer are the host's; taking a block changes no chunk and
  copying one changes that chunk only, since blocks are owned once. `HostNames`
  says that a name `make_fs` has still to meet, or whose calls are under way, is
  not yet in its directory and is not on both lists, so that names in a directory
  differ; that a place without an entry has no name, so that a directory that
  grows shows nothing new. What a reader sees is then shown to be one line for
  each place that holds a finished entry (`SeenAs`). Every step leaves these
  lines as they are (`NothingNew`) but two, which add exactly one (`OneMore`):
  the store of a child directory's entry, and the end of a file's copy. That an
  inode can point to all the blocks there are, so that no copy stops for want of
  a pointer, is again a pigeonhole (`RoomToGrow`).
* `ParchFSCopy!FilesTakeTheirBlocks`: a file takes the blocks `Footprint` says,
  counted pointer by pointer. The invariant `Extents` says that the blocks of a
  file are always the first so many numbers it can point to (`Held`), and how
  many (`Extent`): none before the expansion, up to one past the target while it
  runs, and then one for each block the size touches, one more if the expansion
  reaches the double-indirect area, and one for each chunk copied there so far,
  since each of these calls ends only at an entry it allocates itself. A step of
  the loops takes no block of the file or the first one missing (`LoopsTake`),
  because the scans pass nothing that is free, and a new block is no other
  file's and no table's (`HolderAdded`, `HolderKept`). The sets of pointers are
  then counted as intervals, the one behind the double-indirect pointer by
  numbering its places row by row (`EntriesCounted`).
* `MallocProofs!TypeCorrect`, `ListStaysInOrder`, `HeapStaysPartitioned`. The
  free list is what a search from `freep` can come to. The invariant `HeapSound`
  keeps a set of addresses beside the pointers instead: each of its members is
  followed by the next one, the last by `base` (`Ordered`), no two touch
  (`Joined`), and together with the blocks in use and the one in hand they part
  the heap (`Parted`). That set is the list: whoever starts inside it and follows
  the pointers comes round to everything (`ClosedHasAll`). What has to be shown
  of the code is that a scan that ends is at the place just before the freed
  block (`ScanEnds`), wherever `freep` was, and that cutting a block, joining it
  on either side and growing the heap keep the parts (`Merged` and the like).
* `MallocProofs!KeepsItsPromise`: the allocator implements `Heap`. A block handed
  out has one unit for its header and room for the bytes asked for, it is
  nobody else's, and it stays as it is until it is given back. The theorem has a
  hypothesis, `NoWrap`: no size asked for is among the fifteen greatest of u64.
  `tb_malloc` does not test for them; `nbytes + 15` wraps and they get the units
  of a very small block. The other three theorems need no such hypothesis.
* `INodeTableProofs!BitmapSoundBeforeOverrun`, `FullOnlyWhenUsed`. The invariant
  `Table` adds that the bit of the node over which the bitmap's own bit would
  fall stays clear while the builder runs.
* `ShellProofs!TypeCorrect`, `OneHasTerminal`, `NobodyWaitsInVain`. The invariant
  `Session` adds that init is alone before its fork and never takes a step of
  the shell. The steps of a shell are first sorted by what they do to processes
  (`StepKinds`: move, end, start a child, wait), and each kind is shown to keep
  the invariant. The point of the argument is that a failed launch does not
  change who waits for whom, and that a process that ends has no child.
* `ShellProofs!RedirectionsAsNamed`, `StdioStaysFile`. The invariant `Descriptors`
  says for each place of a shell which of its descriptors 0 and 1 are open and
  as what (`StdioOf`), and what of the command's redirections is done
  (`RedirectedSoFar`). It rests on open taking the lowest free number, and on
  where one of the two may be closed: 1 only after a redirection that failed, or
  in a first shell that init could not open a terminal for, and both end as soon
  as they print; 0 not while the power device is open.
* `ProgramsProofs!TypeCorrect`, `WordsReachMain`, `FileIsShown`, `CodeIsTold`.
  `Flow` is the invariant under all of them: which image runs at which place
  (`Images`), that the call in the registers is the one that place makes
  (`Requests`), what is untouched until when (`Progress`), and what exec and
  `_start` have made of the words (`Words`, from lemmas about `StrLen`, of which
  the number it chooses exists because the kernel terminates every string).
  `TypeOK` and `ArgumentsArrive` are not inductive without it: an answer is of
  the right type only if it answers the right call. Over `Flow`, `Reading` says
  that the vector is the beginning of the file as it was, even when the file has
  grown since, because a program that prints reads no more; `Printing` says how
  much of the text is out; `Making` ties mkdir's place to the directory it made,
  and `Panics` counts the panics against the refused writes.
* `ReadersProofs!EchoKeepsUp`: whatever bytes come, the echo is the line, until a
  read or an echo fails; `StaysInBuffer`: `tb_getline` writes inside its buffer
  (`InBuffer`), for the characters and for the NUL.

Only model-checked: liveness (`Terminates`, `CallsReturn`, `FilesRunOut`,
`ComesBack`), which is outside the prover's reach; `Command::parse`, which is a
recursive operator; `LibrariesAgree`, which compares two tables of registers and
has no step in it; and `CPrintf`, `Ls` and the four properties that compare
what the line readers return with what was typed (`LinesAsTyped`, `LastLine`,
`SameLines`, `CutGoesOn`), since what a recursive function or a fold computes for every input
needs an induction over data.

## Disagreements between the code and what it says

* `parchfs.cpp:478`, run `inode_marked`: the inode bitmap has 32768 bits for 8192
  inodes; node 8192 is the start of the bitmap, and clearing it frees inodes in
  use. The assert of `get_inode` fails instead of "inode bitmap full".
* `utils.c:109`, run `malloc_nomem`: `morecore` recognises -1 only, the kernel
  answers with a negated error number.
* `main.rs:136`, run `parse_grammar`: a pipe of the documented grammar cannot be
  entered. Nor can both redirections (`main.rs:157`): `SignsDecide`, which holds,
  says that a line with one of each always ends the shell.

Other observations, which no run is about:
the link count of a directory is written once as 3, "self, . ..", although ".."
names the parent and later subdirectories add an entry each (`parchfs.cpp:430`);
a stray byte 0x80 to 0xBF is taken for the start of a two-byte character, so it
takes the byte after it along (`fmt_io.rs:57`);
after a failed launch the child goes on as a shell, and the parent later reports
the exit code of that shell; `run_test` begins with `#!/shell`, which is executed
as a command, so its tests are run by such a nested shell; a last line without
newline is dropped by `get_line` and returned by `tb_getline` (`LastLine`); `tb_memset` writes
0 whatever byte it is given (`utils.c:26`), and no program calls it; init never
starts a second shell; line 235 of `main.rs` tests `self.input` where the output
is meant.

About the calls: `openat` passes the length of the path in the register where
the C prototype has the mode (`syscall.rs:82`; `LibrariesAgree` says that it is
the only such difference among the calls both libraries have); a redirection
neither truncates nor can ask to (`main.rs:231`); mkdir makes directories nobody
may enter, 0644 (`types.rs:49`); `print` drops the count a write answers with
(`fmt_io.rs:13`); `getcwd` and `read_vec` return the unfilled rest of their
buffers as well; `nbytes + 15` wraps for the last sizes of u64 (`utils.c:123`);
the C stubs lose the error flag.

About ls: it shows 128 entries and is silent about more (`ls.c:37`); it takes
the buffer of a `getcwd` that failed for a name (`ls.c:22`); it reports the
descriptor when `getdents` fails (`ls.c:40`); it ends without a return value
(`ls.c:48`).

## Not modelled

* `INode::read`, `write_blk` and the `clear` functions of the bitmaps, which
  nothing calls (`clear` sets the bit).
* The copying functions of the C library, loops of one line without state.
* `read_vec` and the conversion in `getcwd`, which no modelled command uses; the
  calls `pipe`, `munmap`, `sysstat`, `time` and `sigreturn`, which only one of
  the libraries has.
* The Linux shim, which replaces the kernel by libc on a developer's machine.
* The test programs: they test the kernel, which is not here.
* `build.rs`, `syscall_gen.py`'s reading of its table, Makefiles and linker
  scripts: build time, without state.
* The working directory of the shell and the reading of the clock.
* The allocator of the Rust library, a third-party crate, except for what fits.

## Plan

1. Done: the image builder, with every safety property and the refinement of
   `FsTree` proved; the inode overrun with proofs; the allocator, with its
   invariants and the refinement of `Heap` proved; the session of processes with
   proofs, the command line, the line readers of both libraries, the system call
   layer, cat and mkdir from exec to exit code with proofs, formatted output and
   ls.
2. Next: the output of two processes that print through `CPrintf` at a time; the
   Linux shim's translation of flags; the test programs with several processes
   (02_fork, 05_signal with its race between handler and signal, 06_pipe) over
   the external kernel operations of `Shell`; a composition of `LineInput` and
   `ShellParse` under a shell reading a script.
3. What is left unproved is listed above, under "Only model-checked".
