# DSYMCreator: specification and proofs

DSYMCreator rebuilds a symbol file for an iOS binary whose debug information
was stripped. `main.py` lets IDA Pro (or `objc-symbols`) list the functions of
a binary, asks `macho-dump.py` for its uuid and its address ranges, and hands
all of it to the `DSYMCreator` tool, which writes a Mach-O file with a symbol
table and DWARF sections that `lldb` loads beside the binary.

This directory holds TLA+ models of that program, the TLC configurations that
check them, and theorems that TLAPS proves for every value of the constants.
Source paths below are relative to the repository; `D/` stands for
`src/DSYMCreator/DSYMCreator/`.

## 1. Inventory

| Part | Source | State it keeps | Operations | Model |
|---|---|---|---|---|
| pipeline | `main.py` | files in `/tmp` (script, thin binary, raw symbols), `<binary>.symbol` | `run_bash`, the extract functions, `dsymcreator_format_symbol`, `main` | `Pipeline`, `SymbolJob` |
| IDA script | `toolchain/IDAScript/all.idc` | the raw symbol file | `print_all_method`, `main` | `Pipeline` |
| tool process | `D/main.mm`, `D/util.h`, `D/exception.h` | flags, parsed symbols, output file, stdio buffer | flag check, parser, `dump_symbol_to_file`, `util::write` | `DSYMCreator` |
| string table | `D/string_table.cpp` | two counters, buffer, map from names to offsets | `StringTable::dump` | `StringTable` |
| image layout | `D/macho.h`, `D/macho_type_wrapper.h` | commands, headers, output buffer | second half of `Macho<T>::dump` | `MachoLayout`, `MachoImage` |
| whole image | `D/macho.h`, `D/symbol_table.h`, `D/dwarf_debug_info_section.h` | all buffers | `Macho<T>::dump` | `MachoDump` |
| DWARF sections | `D/dwarf_debug_info_section.h`, `D/dwarf_debug_abbrev_section.cpp`, `D/dwarf_dummy_debug_line_section.cpp` | bytes | `dump` | `DwarfSections` |
| functions of only-objc mode | `main.py:21-40`, `D/main.mm:47-65` | lines, lists of functions | `extract_raw_symbol_from_objc_symbols`, `read_raw_symbol_data_from_path` | `ObjcSymbols` |
| DWARF base address | `main.py:76-85` | numbers, the maximum so far | `calculate_dwarf_sections_min_file_offset_from_binary` | `AddressRanges` |
| `macho-dump.py` | `toolchain/macho-dump.py` | file position, string table, output | `dumpmacho` and what it calls | `MachoReader` |
| one run of only-objc mode | `main.py:101-129` | what its functions pass on | `main` | `Preparation` |
| structures of Mach-O and DWARF | `D/mach-o/loader.h`, `nlist.h`, `reloc.h`, `D/dwarf.h` | | declarations | `LoaderStructs`, `DwarfSections` |
| `objc-symbols`, `lipo`, IDA | binaries | | | what `main.py` sees of them |
| gflags, the other `mach-o/*.h` | vendored | | | not modelled |
| `test/TestApp`, Xcode projects | | | | not part of the tool |

How they interact. `main.py` is the only caller. Every tool but `DSYMCreator`
is started through `run_bash`: it writes the command to
`/tmp/dsym_creator_temp_shell.sh`, starts a bash that reads that file, and takes
its output; a nonzero status raises an exception. Binaries pass from `lipo` to
the other tools through `/tmp/dsym_creator_binary_<arch>`, functions from IDA
or from `main.py` itself to `DSYMCreator` through
`/tmp/dsym_creator_raw_symbol.txt`. These names are the same in every run.
Inside `DSYMCreator` everything is one thread: `main` parses the raw symbols,
`Macho<T>::dump` first builds the string table, then the sections that refer to
it by offset, then the commands and headers that announce where everything will
be, and only then appends the bytes; `util::write` puts them on disk.

What is hard here:

* Runs share files. A run that was killed or has failed leaves its files to
  the next, and two runs at the same time write each other's script.
* Exit statuses get lost: pipelines end in `sort` and `paste`, `all.idc` exits
  with 0 after a failed `fopen`, the output stream is flushed by `exit()`.
* The image is described before it is made, in three different orders (headers,
  offsets, bytes), with 32-bit sums of 64-bit sizes. Two assertions tie the
  description to the bytes; the build has no `NDEBUG`, so they are live.
* Offsets into one string table are used for two copies of it.
* Abbreviations and entries are written by two functions that agree only by
  convention; the line header is written with the padding of the compiler.
* `macho-dump.py` walks over the commands with the same file position it reads
  tables with, and whatever stops it ends its output silently; `main.py` takes
  numbers out of that output wherever two words occur in a line.
* Addresses pass through a text that is sorted as text, lose a bit that only
  armv7 has, and come back as unsigned numbers of another width.

What makes each part correct:

* string table: the two loops agree, also when their counters have wrapped; if
  the table fits a `uint32_t`, no copy leaves the buffer and every name is found at
  its offset, with duplicate and empty names;
* layout: a reader who follows the commands finds every table, section and
  address at the place it was announced;
* image: every symbol and function can be read back from the first byte on,
  and who goes from unit to unit ends where the section does;
* reader: each member is read where it is, also in a damaged file, and a sound
  file is read to its end whatever the order of its commands;
* base address: the end of the highest segment, or an error;
* functions: an address of an instruction belongs to exactly one of them;
* tool: an earlier symbol file is destroyed only for accepted input, no line is
  lost, and the exit code tells what became of the output;
* pipeline: a run that succeeds has made its file from its own slice,
  leftovers cannot disturb a later run, every run ends.

The hazards, each at its line and with the properties that cover it, are listed
in `PROJECT.json`.

## 2. Modules

### `StringTable`

`StringTable::dump`. A name is opaque and has a length; byte `k` of a copy of
name `n` is the cell `<<n, k>>`, so two copies that collide are told apart.
`Measure` is one turn of the first loop, `Allocate` the `resize`, `Copy` one
turn of the second loop, `Finish` the assertion. Both counters are reduced
modulo `Word`. A `memcpy` that leaves the buffer is undefined behaviour: `Copy`
then either crashes or goes on with the foreign bytes lost. `extent` is a
history variable, the position of each name without reduction; no guard reads it.

### `MachoLayout`

The second half of `Macho<T>::dump`. `PlanFor` computes every offset, length
and address in the order and with the widths of the code (`Word` for
`uint32_t`, `AddrWord` for `T`: `Word` or `LongWord`); `Emit` appends one piece, or checks an
assertion and resizes. A piece is a name and a size. `args.wide` chooses between
the 32- and the 64-bit structures, the template parameter of the code. `LineSize` is 20: the structure is not packed.

### `LoaderStructs`

The structures of `loader.h`, `nlist.h` and `reloc.h`, member by member, in both
widths. A file is a function from positions to cells, a cell one member with
its width and value; who reads at another position or in another width gets
nothing that means anything.

### `DwarfSections` and `MachoImage`

What is written where: the bytes of the abbreviations, the fields of the
entries, the aligned members of the line header, the members of every command
and section header with the values the constructors give them. A member no
constructor sets (`reserved`, `reserved3`) is `Indeterminate`. Both modules also
have the reader: a debugger that knows `loader.h`, `nlist.h` and the forms of
DWARF 2, looks at the magic, goes from command to command by `cmdsize`, finds
sections by name, and decodes entries with the abbreviations it has read.
`lldb` is external; its steps are modelled as far as the sources refer to them.

### `MachoDump`

The whole of `Macho<T>::dump`. It instantiates `StringTable` and `MachoLayout`,
runs one after the other and between them builds the symbol records and the
function entries from the map of offsets. Its properties hand the finished
`Image` to the reader and compare what comes out with the input. Addresses are as
wide as `T`: in 64-bit mode any number below `LongWord`, in 32-bit mode below
`Word` (`Narrow`).

### `MachoReader` and `MachoBinary`

`macho-dump.py`. `pc` is the function it is in, `cursor` the file position,
`prev` the position it goes back to after an excursion; `printed` keeps the
lines that `main.py` greps for, `misread` the members read from bytes that are
something else. An exception is `pc = "raised"` with the output as it is.
`MachoBinary` makes the files: commands in any order with their tables behind
them, cut at a length, or with one field that does not tell the truth.

### `AddressRanges`

The loop of `main.py:80-84` over the lines of `paste`. One line is one `Turn`; a
line that has not two fields raises.

### `ObjcSymbols`

The functions of only-objc mode: `Sort` orders the lines by their text (digits
of a fixed number, as `objc-symbols` prints them), `ReadLine` is one turn of the
loop of `main.py`, `ParseLine` one of the loop of `main.mm`, where `Stoull` turns
a negative number into one of 64 bits and cuts it to `T`. A listing with an
address twice may be sorted either way.

### `Preparation`

The data of one undisturbed run of only-objc mode from the binary to the
arguments of `Macho<T>::dump`. It instantiates the three modules above and
`MachoLayout`, runs them in the order of `main.py`, and models what is between
them: the check of the magic, what egrep finds in the lines macho-dump prints
(names of symbols and the string table included), the exit status of a grep
without a match, the length of the uuid. `Pipeline` has the processes, files and
faults of such a run and takes these texts as opaque values; `Preparation` has
the values and no faults.

### `DSYMCreator`

The process of the tool. `flags` says which command line values and files are
usable, `lines` what kind each line of the raw symbols is. An `Exception`
becomes `Return(ExitCode(...))`, a failed assertion or an exception of `stoull`
becomes `Abort`. The image is counted in stdio buffers: `Write` hands whole
buffers to the system, `KeepRest` leaves the rest in the stream, `Exit` is the
flush of `exit()`, whose failure nobody sees. `Kill` may happen at any step.

### `SymbolJob`

What a run promises, without intermediate steps: it may truncate its symbol
file, then publish an image made from its own slice in the same step that makes
it report success, or fail anywhere. What it publishes may be only the beginning of
that image (`PublishCut`): the promise is no better than `util.h`, which does not
look whether the last buffer got to the disk.

### `Pipeline`

Runs of `main.py`. `pc` is the place in `main`; during a call of `run_bash`,
`sub` is the step of it: open the script (which empties it), write it, the child
reads it, the tool runs. A text is a record of the tool that made it, the slice
it was made from, and whether it is whole. Writing a file that another process
has written since it was emptied leaves the new text or garbage behind it.
`Returned` is what `main.py` does with status and output of the call it waits
for, whatever command the child has really executed. Faults are actions of
their own: `Kill`, `ToolFails` (with a status, or hidden behind `sort` and
`paste`, with part of the text), `FormatFails` (a status of `DSYMCreator`),
`FlushFails` (its end is lost and the status is 0 all the same), `IdaCannotOpen`,
and `TmpIsFull` (the script, the raw symbols of `main.py` or those of IDA do not get
into the file that was opened for them, and nobody notices). The constant `Faults`
says which of them may happen. `disturbed` is a history variable: the runs that met
a fault or overlapped another run.

`SymbolJob` is refined by `Pipeline` with `status` read off `pc`. The tool is
here two steps, truncate and write. The write ends in one of the ways that
`DSYMCreator` models in detail: with a complete file and status 0 (`FormatWrite`),
with an incomplete one and another status (`FormatFails`), or, as the run `flush`
below shows, with an incomplete one and status 0 (`FlushFails`).

### Proof modules

`StringTableProofs`, `MachoLayoutProofs`, `DSYMCreatorProofs`,
`ObjcSymbolsProofs`, `PipelineProofs`, `MachoDumpProofs` and `PreparationProofs`
hold the theorems about the module they are named after. `PreparationProofs` also
covers `MachoReader` and `AddressRanges`, which only run as parts of
`Preparation`. `LoaderStructsProofs` has the lemmas both readers of Mach-O files
need: what lies where, and that who reads a member where it was written gets
its value. The operators named "Mutant of
..." in the comments are deliberately wrong variants of the definition that
follows them; no specification uses them. They record which mistake each
property finds.

## 3. Runs

| Run | Instance | What it shows |
|---|---|---|
| `string_table` | 4 names of lengths 0, 2, 2, 6; lists of up to 4; `Word` = 11 | lists that fit, wrap once and wrap twice: the assertion holds for all; for those that fit no overrun and every name found (those that wrap do overrun) |
| `layout` | 32- and 64-bit images; 16-bit `Word`, 24-bit `LongWord`; sizes next to page boundaries, up to the word and beyond; bases 0, unaligned, near the top | commands and headers announce the places of the bytes; a wrapped sum is stopped by an assertion |
| `image` | 32- and 64-bit images; up to 3 of 5 symbols: shared names, an empty name, nested ranges, addresses beyond 32 bits; bases below and above the narrow word; good and bad uuids | every symbol and function is read back from the first byte on; the lengths of the units fill their sections |
| `prepare` | 15 orders of up to 7 commands in both widths, 14 places to cut at, wrong `sizeofcmds`, `cmdsize` and `n_strx`, wrong magics, symbols called `vm_addr` and `_vm_size2`; listings of up to 3 of 7 methods; listings with addresses of 64 bits; 16- and 24-bit words, 4 and 6 digits | members are read where they are, sound binaries to their end; the base is the least one and exact, and every DWARF section there is room for lies above the segments; addresses belong to one function |
| `tool` | up to 3 lines of 4 kinds, disks with 0 to 7 free buffers, every combination of bad flags | old output survives bad input, no line lost, exit codes |
| `sequential` | 2 runs one after the other; a fat, a thin and an unusable file; both modes, with and without IDA; kills, failing tools, flushes that fail unseen | types, success means own image, or the beginning of one, an undisturbed run succeeds completely whatever was left in `/tmp` (without IDA, IDA mode fails and touches nothing), refinement of `SymbolJob` |
| `overlap` | 2 runs at the same time, both modes, one thin file, with the failing `fopen` of IDA and a `/tmp` that may be full | both end |

Why the bounds are enough. Two names can be equal, distinct, empty, adjacent or
apart in a list of 4, and a counter of 11 values wraps up to twice in such a
list. In the layout, sums wrap, alignment is exact or off by one at both ends,
and the counts 340 to 342 put the end of the symbol table around a page
boundary; only relations between sizes matter, so a page of 4096 in a word of 65536 stands
for the same page in 2^32. Three symbols give every pattern of shared names
with one stranger. In the pipeline a run can only meet what the last writer of a
file left, so a second run sees every kind of leftover, and overlapping needs two.
In `prepare` a reader's position depends only on the command it comes from and
the one that follows: every kind of command occurs before, behind and without
tables; cuts fall into the header, into each command and into each table. A
binary and a listing do not influence one another, so each list of binaries
goes with one listing and the other way around. Three methods give a first, a
middle and a last one, with equal addresses, a thumb bit at either of them,
address 0, and one for whose function the end made up is the first number
that is no address any more. A symbol called `_vm_size2` adds an odd number of
numbers to those of the segments (those of its table and its own), one called
`vm_addr` an even one.

Deadlock is checked everywhere: every module has an explicit step for the
finished process.

### Where code and documentation disagree

These five runs each end in a violation, on purpose:

| Run | Property | The code | It says |
|---|---|---|---|
| `sizeofcmds` | `SizeofcmdsCoversCommands` | `D/macho.h:117` leaves the `__DWARF` segment command out of `sizeofcmds` | `D/mach-o/loader.h:211-212`: the total size of all of the commands |
| `zero_index` | `NamedSymbolsHaveIndex` | the first name gets offset 0 (`D/string_table.cpp:22-24`) | `D/mach-o/nlist.h:103-105`: names must not have a zero string index |
| `flush` | `SuccessIsComplete` | the output is never closed (`D/util.h:78-84`), the end is written after success was decided | `D/main.mm:27`: if no error occurs a fresh symbol file will be created |
| `overlap_uuid` | `UuidFromBinary` | all runs share one script file (`main.py:17-19`) | `main.py:122`: extract uuid from the binary file |
| `ida_stale` | `SymbolsFromBinary` | a failed `fopen` exits with 0 (`all.idc:4-20`), the old file is used | `doc/all.md:50`: every function is written to the given path |

`UuidFromBinary` looks at a run once `DSYMCreator` has accepted the uuid, for it
refuses one that is empty (`D/main.mm:32-38`). In `overlap_uuid` the run reads the script of
another that is about to ask for its own uuid.

### Fairness

Only `overlap` checks liveness, under weak fairness of each run's own steps:
the system schedules the processes of a run, and the tools end by themselves (IDA
waits for a user to confirm its dialogs, who is assumed to do so). No fairness
is put on faults, or on which contents a racing write leaves. `main.py` has no
loop that waits and no retry, so nothing stronger is needed.

## 4. Proofs

TLC shows the properties on the instances above; the following theorems hold
for every value of the constants that satisfies the named assumptions. In each
module `Inductive` proves `Spec => []IInv` for a strengthened invariant `IInv`
(in `PreparationProofs`, `FullKept` and `FullInv`), with one step per action and
below it one per conjunct the action disturbs, and the other theorems follow
from it.

| Module | Theorem | Statement |
|---|---|---|
| `ObjcSymbolsProofs` | `TypeCorrect` | `Spec => []TypeOK` |
| | `RangesAreAdjacent` | `Spec => []RangesAdjoin` |
| | `NoAddressShared` | no address is in two parsed ranges, if those are in order |
| | `OrderIsKept` | `Spec => []OrderInv`: once sorted as text, the lines are in the order of their addresses |
| | `AllAddressesAreAttributed` | `Spec => []AttributedEverywhere`, for every address |
| | `AddressesAreAttributed` | `Spec => []EveryAddressAttributed`, for those a run checks |
| `PreparationProofs` | `TypesAreCorrect` | `Spec => []TypeOK` |
| | `FieldsDeclared` | `Spec => []FieldsAsDeclared` |
| | `SoundIsRead` | `Spec => []SoundBinariesAreRead` |
| | `BaseIsLeast` | `Spec => []LeastUpperBase` |
| | `BaseIsExact` | `Spec => []BaseExact` |
| | `DwarfIsAbove` | `Spec => []DwarfAboveSegments` |
| | `AllAddressesAttributed` | `Spec => []AttributedEverywhere`, inside the run |
| | `AddressesAttributed` | `Spec => []EveryAddressAttributed` |
| `StringTableProofs` | `TypeCorrect` | `Spec => []TypeOK` |
| | `LoopsAgree` | `Spec => []AssertHolds` |
| | `CopiesStayInside` | `Spec => []NoOverrun` |
| | `NamesAreFound` | `Spec => []EveryNameFound` |
| `MachoLayoutProofs` | `TypeCorrect` | `Spec => []TypeOK` |
| | `SymtabIsRight` | `Spec => []SymtabLocatesTables` |
| | `HeadersAreRight` | `Spec => []HeadersLocateSections` |
| | `SegmentIsRight` | `Spec => []SegmentMapsSections` |
| | `DwarfIsAbove` | `Spec => []DwarfAboveProgram` |
| | `CommandsAreRight` | `Spec => []CommandsChain` |
| `MachoDumpProofs` | `TypeCorrect` | `Spec => []TypeOK` |
| | `SymbolsAreFound` | `Spec => []EverySymbolRecovered` |
| | `FunctionsAreFound` | `Spec => []EveryFunctionRecovered` |
| | `UnitsAreFilled` | `Spec => []UnitsFillSections` |
| `PipelineProofs` | `TypeCorrect` | `Spec => []TypeOK` |
| | `UndisturbedSucceed` | `Spec => UndisturbedRunSucceeds` |
| | `SuccessIsOwn` | `Sequential` implies `Spec => SuccessIsOwnImage` |
| | `UuidIsOwn` | `Sequential` implies `Spec => []UuidFromBinary` |
| | `RunsImplementJob` | `Sequential` implies `Spec => JobSpec`, the refinement of `SymbolJob` |
| `DSYMCreatorProofs` | `TypeCorrect` | `Spec => []TypeOK` |
| | `OldOutputIsSafe` | `Spec => []OldOutputSurvives` |
| | `NoLineIsLost` | `Spec => []EveryLineCounts` |
| | `ExitCodeIsRight` | `Spec => []ExitCodeTells` |

**String table.** From `NamesAssumption`: lengths are natural numbers, the
inputs are finite sequences of names, `Word` is positive, and the zero byte is
no byte of a name. None of the properties is inductive. `AssertHolds` compares
two counters that run at different times: `CountersExact` says that each is the
sum of the lengths of the names its loop has handled, reduced modulo `Word`, and
`extent` provides that sum without recursion, since the first loop records each
partial sum. `EveryNameFound` needs to know that a copy does not touch the
earlier ones and finds only zeros: `ExtentsAdjoin` orders the positions,
`CopiedSoFar` says that what was copied can be read and what lies ahead is zero,
`MapExact` that the map knows one copy of each name handled so far. `NoOverrun`
follows from the first two, because a partial sum of a table that fits is below
`Word` and its own remainder. The solver cannot do the arithmetic of remainders
unaided, it has lemmas for it (`RemainderOfSum`).

**Layout.** From `LayoutAssumption`: the widths are multiples of the page and
not smaller than the offset of the symbol table, the arguments fit their types.
The properties speak of the finished image only. `IInv` keeps one table,
`SizeBefore`, of the exact position of each of the 18 steps: `buffer.size()` is
the entry of the current step, and every piece appended so far lies at its own
entry (`Placed`), which needs that no piece is appended twice
(`EmissionInjective`) and that each ends where the next begins (`PiecesAdjoin`).
The table is exact, the plan is wrapped, and the theorems compare the two.
`SymtabIsRight` needs no bound on the input: the second assertion has compared
the exact end of the strings with the announced start of the DWARF data, which
is below `Word`, so the sums of `macho.h:74-75` cannot have wrapped
(`NoWrapBeforeDwarf`). For the sections nothing is asserted, so
`HeadersAreRight` assumes an image that fits the word, and `SegmentIsRight` and
`DwarfIsAbove` a base that leaves room for it; `AlignUp` says what `align_to`
does at 0 and next to the top.

**Tool.** From `ToolAssumption`: the bounds are natural numbers. `Checked` lists
what each place of the program has found in order, which makes
`OldOutputSurvives` inductive; `LinesCounted` says that the symbols parsed so
far are the lines before the current one that are not blank, a cardinality
that grows by one with a line (`OneMoreLine`); `BytesTracked` relates the exit
code that was chosen to the whole buffers on the disk while `exit()` has yet to
flush the rest.

**Functions.** From `ObjcAssumption`: words are positive, the narrow one divides
the wide one, as many digits are printed as an address can have, and listings are
sequences of records. `SymbolsChain` says what the first loop has made of the
lines so far, the end of the last function being open; `ParsedSoFar` what the
second loop has made of these. `OrderInv` says that sorted lines are in the order
of their addresses. Sorting compares texts: `DigitsTell` shows that two different
numbers have a first digit in which they differ, and that the smaller digit
there belongs to the smaller number, because the digits suffice for both. The
powers of 16 are defined by recursion, so the proof first shows that there is
such a function (`RuleIsFollowed`) and only one (`RuleDetermines`). With the
order, adjacent ranges hold each address once, and subtracting 1 from an even
address moves a beginning only before code that is at even addresses
(`Attribution`). This is only true of addresses for which the made up end of the
last function is an address itself (`InReach`): a last function within 0x1000 of
the top of the address space gets an end that wraps around to a small number, or
that `stoull` refuses.

**From the binary to the arguments of the tool.** From `PreparationAssumption`:
every binary is well formed (its commands are of the kinds modelled, addresses and
counts are natural numbers, its magic tells its width), its file is the one the
linker makes of it, possibly cut or with one wrong count; a word that egrep looks
for is not empty; names contain natural numbers; the widths are positive. Nothing is
assumed about the number, order or size of commands, sections, symbols and
tables. TLC evaluates the assumption in `prepare`. None of the properties is
inductive; `FullInv` has one part for each program that takes part.

`Track` is about the position of `macho-dump.py`. `Position` gives for each of
its functions the place in the binary it reads next: of command `k`, section `s`,
symbol `s`, and the place it will go back to. Every function is left where the next
one begins; where it is left through an excursion to relocations, symbols, strings
or indirect symbols, `prev` holds the end of the command (`SectionStep`,
`SymtabStep`, `NlistStep`, `DysymtabStep`). What lies there follows from lemmas about the cells of a file
(`FileApart`, `HeaderIsPlaced`, `SectionIsPlaced`, `SymbolIsPlaced`): structures
are laid one behind the other (`TablesClimb` and the sums of `FiniteSetsExt`, by induction over sets of
numbers), so that no two members overlap and each reads back its own value.
`FieldsDeclared` follows for every cut, because a read that is not complete ends
the program, and for wrong counts, because every one that is believed is compared
only after the members behind it were read at places of their own; only the
`cmdsize` of a command the program does not know, which it skips, has to be right.
A sound binary
has no such end (`Track` says so for `"raised"`).

`Tally` is about what has been printed: after each command exactly the numbers of
the segments so far and one line for each uuid (`Exactly`); from the moment a
string table has been printed the numbers may be mixed with those in names of
symbols, unless the binary has no such name (`Plain`). The lines are joined with
`FlattenSeq`, a recursion over sequences, of which the lemmas show that one piece
more is one more at the end (`FlattenMore`). `SegmentsTold` says what remains true
of a damaged binary whose segments come first: once a uuid or a string table was
printed, the numbers begin with those of all segments, whatever comes behind them
and wherever the program gives up.

`LoopInv` is about `main.py:80-84`: the base lies above each range of the lines
handled so far, all of which were complete, and is the end of one of them. A line
is complete exactly if both its numbers exist, so behind the last line all of them
do (`LinesAreHalf`). `Fed` says that the loop has got all the numbers that were
printed, `Control` what each function of `main.py` leaves to the next, and
`BaseParsed` that the tool parses the base that was calculated.

Together: the numbers of the segments are pairs, one for each segment, so with
`Exactly` the candidates for the base are the ends of the segments (`BaseIsExact`).
In a run that succeeds a uuid was printed, so by `SegmentsTold` each segment is
among the pairs even if something went wrong behind it, and lies below the base
(`SegmentsBelowBase`); the base is below the word if there is room, so `stoull`
leaves it alone, `align_to` only raises it (`RoundUp`) and no section address wraps
(`DwarfIsAbove`). The property asks for room for each section by itself: the 32-bit
offsets of an image that is too large wrap, so no bound on the whole image could be
taken from its plan.

**Image.** From `DumpAssumption`: names have lengths, addresses fit `LongWord`,
the words are multiples of a page. The three properties say that a reader who
starts at the first byte and knows only `loader.h`, `nlist.h` and DWARF gets the
input back, for any number of symbols and functions, both widths, duplicate and
empty names and addresses anywhere in the word. `IInv` composes the modules that
`MachoDump` instantiates: the invariant of the string table while and after it
is built, that the records were made from the finished map (`TablesDumped`),
and the invariant of the layout from the check of the uuid on. Their theorems
are not proved again: `MachoDumpProofs` instantiates `StringTableProofs` and
`MachoLayoutProofs`, derives their assumptions from its own, and shows that the
two instances are about the same states (`SameStringSteps`,
`SameLayoutSteps`, ...). The layout is started with arguments the first part has
computed; that they are arguments `MachoLayout` allows is `LayoutStarts`, and
that the number of records is one is `FewSymbols`. Both need a table that fits
(`Strings!Fits`), for the offsets of a table that has wrapped are overwritten;
the last two properties moreover need an image that fits (`Layout!Fits`), because nothing
stops the 32-bit sums of the section headers from wrapping.

The rest is about the finished file and splits into three. What lies where: the
members of a structure are as far apart as they are wide (`OffsetsIncrease`,
`CellsApart`), pieces side by side stay apart (`ApartJoin`), so every member
reads back the value its constructor gave it (`Readable` lists the file, the
`...IsRead` lemmas read it). The chain of commands: who adds up the sizes
of commands visits those four (`CommandsAreAt`), which needs that `cmdsize` of a
segment counts its sections. The entries: the bytes of `__debug_abbrev` decode
to two declarations, every step of the entry reader takes the width those
declarations give it, and after the last function it meets the zero byte at the
end of the unit and of the section. The readers are recursive functions of a
position; TLA+ defines such a function by a choice, so the proof first shows that
there is one (by sets of positions from the end of the section backwards), then
follows it by induction over sets of natural numbers. The sums of
`FiniteSetsExt` are treated in the same way (`SumsExist`, `SumsCommute`). TLC has
checked `IInv` on the instance of `image`.

**Pipeline.** From `PipelineAssumption`: finitely many runs, a kind for each
binary, and nothing else about binaries, architectures, modes and faults.
`UndisturbedRunSucceeds` speaks of any schedule: a run that never met a fault
nor overlapped another one ends with a complete file made from its own slice,
or, for an unusable binary or without IDA, fails without having touched its file,
whatever earlier runs have left in `/tmp`. This is not inductive, for it only
looks at the end of the run. `OnTrack` says what a run that is alone knows at
each place and each substep: from the moment it opens the script until the child
has read it, the script is its own; from `lipo` on, the thin binary; from the
listing of functions until they are formatted, the raw symbols; and what it has
collected so far has been made from its slice. Starting a run needs nothing of
the shared files, which is why leftovers are harmless. The history variable
`disturbed` carries this over to runs that overlap others before or after, since
an undisturbed active run is alone.

The other three theorems have the hypothesis `Sequential`: at most one run is
active at a time, IDA can open its output and `/tmp` is never full (`MaxActive = 1`,
`"fopen" \notin Faults`, `"tmp" \notin Faults`); kills, failing tools, texts cut
short and flushes that fail unseen are allowed. All parts are needed:
`overlap_uuid` and `ida_stale` are counterexamples without the first and the second.
Without the third, the script of a call can be empty, which bash ends with status 0:
when that call was the one of `lipo`, whose output nobody looks at, the run goes on
with the thin binary of another input. Under it `IInv` keeps `OnTrack` for every active run, with
texts that may be incomplete. `RunsImplementJob` maps every step of `Pipeline` to a
step of `SymbolJob`: the start of a run to `Start`, opening the output to `Truncate`,
the end of `DSYMCreator` to `Publish`, or to `PublishCut` when its flush fails
unseen (`FlushLeavesOwn`), every end without success to `Fail`, and
all others to a stutter. The mapping needs the invariant at these two steps
only: the image, or what is left of it, must be one of the run's own slice. TLC has checked `IInv` for two
runs one after the other and, its first half, for two that overlap with all faults.

Only model-checked: liveness (`EveryRunEnds`), which this prover cannot do under
fairness. Every invariant and every action property of a passing run is a
theorem. The violations of section 3 are counterexamples and need no proof.

## 5. What is not modelled

* The declarations nobody uses: of `loader.h`, `nlist.h`, `reloc.h` and `dwarf.h`
  the structures and constants that `DSYMCreator` writes or `macho-dump.py` reads
  are modelled, the other load commands, flags, tags and attributes are not;
  nor are the headers no source file includes (`swap.h`, `arch.h`, `fat.h`,
  `ranlib.h`, `compact_unwind_encoding.h`, the `reloc.h` of the processors) and
  gflags, which is linked as a binary. They are more than half of the lines of
  the repository and contain no behaviour of it.
* In `macho-dump.py` the option `--dump-section-data`, standard input and the
  printing of members `main.py` does not look for. In a uuid, only that a line
  has one: a name of a symbol that looks like a uuid on a line with the word
  "uuid" would be taken for one too.
* `DwarfAboveSegments` supposes that the segments come before `LC_UUID` and
  `LC_SYMTAB`, the order of the linker. In another order an exception of
  `macho-dump.py` between them lowers the base without a trace.
* `prologue_length` of the line header: its value counts two bytes of padding that
  are in front of it, and it is where the compiler aligns it, two bytes behind
  the place DWARF 2 gives it. No property speaks of it, `lldb` only has to skip
  the unit; `UnitsFillSections` says that it finds the end.
* The address of `__TEXT`, a constant (`D/macho_type_wrapper.h:103`) that nothing
  compares with the binary.
* Images of more than 2^32 bytes in 64-bit mode beyond what the 16-bit instance
  shows, and the cut of `buffer.size()` in `main.mm:75`.
* The children of a killed run: they are taken to die with it. A child that
  lives on acts like an overlapping run.
* Contents of racing writes: a mixture of two texts is one value, garbage.
* The test application and the Xcode projects.

## 6. Plan

1. `StringTable`, `MachoLayout`, `MachoDump`, `DSYMCreator`, `SymbolJob`,
   `Pipeline`, proofs of `StringTable`, `MachoLayout` and `DSYMCreator` (done).
2. `LoaderStructs`, `MachoReader`, `AddressRanges`, `ObjcSymbols` and their
   composition `Preparation`; `DwarfSections` and `MachoImage`, so that the image
   is read back from its bytes; proofs of `ObjcSymbols` (done).
3. Proofs of `Pipeline` (types, own images, undisturbed runs, the refinement of
   `SymbolJob`) and of `MachoDump` (the image is read back from its first byte) (done).
4. Proofs of `Preparation`: the text order of addresses and their attribution,
   members read as declared, sound binaries read to their end, the base, and the
   DWARF sections above the segments (done).
5. Left: the reader for `--dump-section-data`, which nothing in `main.py` asks for.
