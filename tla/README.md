# A TLA+ development for matiec and its LowPLC tool chain

The repository holds two programs that share a directory.

* **matiec** compiles IEC 61131-3 text into C: a lexer and grammar build a
  syntax tree, semantic passes annotate it, and a generator prints C that is
  linked with a library and run scan by scan by a small host.
* **LowPLC** compiles a small structured-text language into a TLV byte code,
  validates it with a generated parser, and interprets it on a microcontroller
  with an interpreter written and verified in Low*/F*.

What both produce is a *scan cycle*: a program that reads inputs, runs once from
top to bottom, writes outputs, and keeps its memory (timers, counters, edges,
steps, stored actions) until the next scan. Two questions are asked here of both
chains. Does the compiler produce what the source text means? And does what runs
at every scan answer rightly over *many* scans?

Contents: [inventory](#1-inventory), [modules](#2-modules-and-how-they-correspond-to-the-code),
[runs](#3-what-the-runs-check), [bounds](#4-bounds), [fairness](#5-fairness),
[proofs](#6-what-is-proved), [divergences](#7-where-code-documents-and-language-disagree),
[limits](#8-what-is-abstracted-and-what-is-not-modelled), [plan](#9-plan).
Paths are relative to the repository.

To run: `tlc -config <run>.cfg <Module>` for a run of section 3, and
`tlapm <X>Proofs.tla` for the proofs.

## 1. Inventory

### LowPLC

| part | code | state it keeps | operations | correct when |
|---|---|---|---|---|
| compiler | `tools/lowplcst_parser.py` | symbol table, slot allocation, scratch slots | lex, parse, type-check, emit TLV | the code computes what the source says; no scratch slot is reused while needed |
| validator | `everparse/LowPLC_TLV.3d` and the C generated from it | none | accept or reject bytes | what it accepts the interpreter reads as it did |
| interpreter | `fstar/src/LowPLC.Interp.Low.fst` | the pool: BOOL and INT slots, instances of ten kinds of function blocks | `exec_stmts_low` and the calls it makes | it computes the pure semantics; reads stay in the code |
| pure semantics | `fstar/src/LowPLC.Interp.Spec.fst`, `...State.fst` | none | `exec_stmts` as a function | it is the language of `analysis/lowplcst_spec.md` |
| function blocks | `LowPLC.{TON,TOF,TP,CTU,CTD,CTUD,R_TRIG,F_TRIG,SR,RS}.fst` | their own record | one pure step each | the requirements of the standard over the history of calls |
| their Low* wrappers | `LowPLC.*.Impl.fst` | a buffer | the same step on a buffer | equal to the pure step |
| cycle bound | `LowPLC.WCET.fst`, `wcet_*` of `firmware/lowplc_runtime.c` | none | a bound for a code section | no scan costs more |
| runtime | `firmware/lowplc_runtime.c` | the loaded program, the pool, the tick | load, scan, set inputs and tick | only accepted programs run, on memories of their own |
| host | `firmware/main_bringup.c`, `measurement/` | peripherals | load, scan (three times in `main_bringup.c`, which then waits) | it reads the result of a load |

They interact by calls on one thread: the host loads a program (size test,
validator, period, cycle bound, cleared pool, init section), then repeats: set
inputs and tick, scan. The function blocks share the pool with the program, so
what they keep between scans meets whatever the program writes in between.

### matiec

| part | code | state it keeps | operations | correct when |
|---|---|---|---|---|
| lexer and grammar | `stage1_2/` | lexer state stack, symbol tables of names | text to tree | accepts the language |
| tree and utilities | `absyntax/`, `absyntax_utils/` | nodes; position of an iterator | visit, iterate over parameters | a value meets the parameter it is for |
| semantic passes | `stage3/` | annotations: flow links, constant values with flags, candidate types, chosen types and declarations | link, fold, fill, narrow, force, check | legal programs pass, others do not, and each expression has the one type the generator needs |
| C generator | `stage4/generate_c/` | what is being printed; the number of a call | print C for lists, statements, wrappers, charts, configurations | the C compiles and does what the text means |
| SFC of the generated C | `generate_c_sfc.cc`, `generate_c_sfcdecl.cc` | `STEP`, `ACTION` and transition tables, `elapsed_time` | one scan: seven stages | tokens are neither made nor lost; actions keep their qualifier's times |
| generated configuration | `generate_c.cc` | flags and R_TRIGs of tasks, the common tick | decide which tasks are due, run their programs | every task in time, also when the count of ticks wraps |
| run-time library | `lib/C/` | the records of standard function blocks | TIME and date arithmetic, one call of a block | what the standard says of the history of calls |
| host | `tests/main.c`, `tests/plc.c` | a timer, the count of ticks | call `config_run__` at each expiry | scans do not overlap |
| other | `generate_iec/`, `main.cc`, `util/` | none | printing, command line | |

The front end hands a tree from stage to stage; each pass reads what the passes
before noted in it. At run time the host's timer calls `config_run__`, which
calls the resources, which sample their tasks and call the programs that are
due, whose bodies call function blocks and wrappers of functions.

### What is hard

* **Sequences of calls.** Timers, counters, edges and latches answer from a
  history of inputs that a unit test enumerates for a few calls only; in a
  program they may be called twice in a scan, or not at all.
* **Words that wrap.** The tick is 32 bits, INT 16, the cycle bound 32, the count of
  ticks of a configuration 32; constants are folded in 64 bits, signed and unsigned at once.
* **Ends of resources.** The gas of the interpreter runs out in the middle of
  nested loops; scratch slots and levels of nesting are counted.
* **Lengths that contradict each other.** Each block carries its own length and
  those of its bodies; a byte may be damaged.
* **Failures in the middle.** A load has five ways to return, some of them
  after it has stored something; what the host does next decides.
* **Order inside a scan.** An SFC tests transitions in one order, takes tokens
  in two stages, evaluates associations in a third order; a task is triggered by
  what programs of other resources wrote before or after it was sampled.
* **Passes that must agree.** Types flow forwards through jumps and labels and
  backwards through narrowing; the text of a call and the text of its wrapper are
  printed by two visitors that number the calls separately.
* **What must happen.** A scan must end, a pulse must end, a timer must release.

`PROJECT.json` lists these as hazards, each at the line where it bites, with the
properties that would fail.

## 2. Modules and how they correspond to the code

| module | role | models |
|---|---|---|
| `Timers` | component | TON, TOF, TP as `exec_fb_call_low` inlines them |
| `TimerSpec` | abstract | `ton_step`, `tof_step`, `tp_step` |
| `TimerProofs` | proofs | |
| `MCTimers` | mapping, TLC | flat words to the F* phases; a history of calls; the host loop around the wrap of the tick |
| `Words` | operators | the 16-bit arithmetic, for any word size |
| `Counters` | component | CTU, CTD, CTUD, R_TRIG, F_TRIG, SR, RS of the interpreter |
| `CounterSpec`, `CounterProofs` | abstract, proofs | the pure steps |
| `MCCounters` | TLC | a history of calls with a literal PV; a PV that moves |
| `Interp` | component | `exec_stmts_low` and the calls it makes |
| `Wcet` | operators | the cycle bound of `lowplc_runtime.c` |
| `InterpCall` | specification | one call on a whole program |
| `InterpSpec` | reference | `exec_stmts` of the pure semantics |
| `InterpProofs` | proofs | what each step of `Interp` does to types, frames and meaning, what it spends, and what `Wcet` allows it |
| `CallProofs` | proofs | the theorems of `InterpCall` |
| `MCInterp` | TLC | families of programs, the language of the document |
| `Runtime` | composition | the API of `lowplc_runtime.c` around the steps of `Interp` |
| `RuntimeProofs`, `MCRuntime` | proofs, TLC | |
| `LowPlcParser` | operators | the recursive descent of `lowplcst_parser.py` and its class `TypeChecker` |
| `Emitter` | operators | its class `TLVEmitter`, down to bytes |
| `TlvValidator` | operators | the generated byte parser `LowPLC_TLV.c` |
| `TlvCode` | operators | what the interpreter reads in the bytes it is given |
| `StLanguage` | reference | the language of `analysis/lowplcst_spec.md` and its grammar |
| `Build`, `MCBuild` | composition, TLC | text, image, damage, load and scans |
| `Chart`, `TokenGame` | abstract | a chart and what it promises |
| `Sfc` | component | the generated C of a chart |
| `SfcProofs`, `MCSfc` | proofs, TLC | |
| `TimeLib` | operators | TIMEs and dates of `iec_std_lib.h` |
| `LibTimers`, `LibCounters`, `LibControl` | components | every function block of `iec_std_FB_no_ENENO.h`, and of `iec_std_FB.h` behind EN |
| `LibFunctions` | component | the standard functions of `iec_std_functions.h` and the conversions of `iec_std_lib.h` |
| `Configuration` | component | the tasks of a configuration, as `generate_c.cc` schedules them, and `plc.c` |
| `MCLib` | mapping, TLC | the five modules above, one family of them at a time |
| `LibProofs` | proofs | every function block of the library; the scheduling of a configuration |
| `FunctionProofs` | proofs | what the standard functions answer |
| `IlAnalysis` | operators | the passes of `stage3` on an Instruction List, with the arithmetic of `constant_folding.cc` |
| `IlCompiler`, `MCIl` | composition, TLC | passes, generated C of `generate_c_il.cc`, its execution; the language |
| `StAnalysis` | operators | the passes of `stage3` on Structured Text |
| `StCompiler`, `MCSt` | composition, TLC | passes, generated C of `generate_c_st.cc` and `generate_c_inlinefcall.cc`, its execution; the language |

### LowPLC at run time

**Timers.** `ton`, `tof`, `tp` are the flat records of the pool, `*_q` the BOOL
slots the calls write, `tick` and `in` what the host wrote. `Scan(t, v)` is one
scan: the host's writes and one call of each timer. A call is the disjunction
of its phases, as the code's chain of `if` is; a call whose tick is below the
stored start leaves state and output alone (`Skipped`). A tick that repeats
stands for two calls in one scan, one that jumps for scans without a call.
`TimerSpec` has the algebraic states of the F* combinators, and
the mapping in `MCTimers` takes phase 0, 1, 2 of TON to IDLE, TIMING, DONE. The flat TOF and TP
never reach phase 2: outside TIMING they map to DONE when `prev_in` is 1 and to IDLE
when it is 0, and their leftover `start` to the 0 the combinators reset it to.

**Counters.** `Scan(i)` is a call of each block with the inputs `i`. Instances
and slots are distinct, so that one record of inputs serves all blocks. The
memory of CTU and CTD is the last CU or CD, that of CTUD both; the order of the
branches (reset, load, count up, count down) is the code's.

**Interp.** The recursion of `exec_stmts_low`, `exec_if_block_low`,
`exec_for_block_low` and `exec_for_iter_low` is a stack of frames, one per
pending call, the tail call of the next statement replacing the frame. The gas
is *not* shared: each call passes its own less one, so a block and the
statement after it start from the same gas, and gas that ends inside a body
does not end the statements after the block. Each early return of the code is a
conjunct (`Fits`, `IfRuns`, `ForRuns`) whose failure pops the frame or goes on
to the rest, as the code does. `spent` counts cycles; the code keeps no such
counter. It stands for what the cost table claims of the hardware.
`InterpSpec` and `Wcet` translate functions that call one another, each time with one gas less: what they
return with some gas is given by a table (`OneMore`) of what they return with one less, and the table
of all gas is a recursive function on the numbers up to `Gas`.

**Runtime.** `load_refused`, `load_over_budget` and `load_init`+`load_ok` are the
returns of `lowplc_load_program`, in order. The order matters: the pointer and
the header are stored before the cycle bound is compared. `interpret` is a
step of `Interp`, so init sections and scans run instruction by instruction
while the API call is pending. `accepted` and `budget` remember what the last
successful load was asked; the code keeps neither. `Host` names what a host
does with the result of a load: `each` scans while the last load returned
`LOWPLC_OK` (`main_bringup.c`), and `usage` tests the result as the usage comment of the header does.

### LowPLC from text to scan

**Build.** A behaviour starts from a syntax tree. `TextOf` (in `StLanguage`) writes it as the tokens a
careful programmer would, with no parenthesis the grammar does not require;
`compile_file` parses them, checks types and emits bytes, each as the class of that name in the Python
source does. `damage` may change one byte of the image of a few programs. `load_program` validates and runs
the init section, `set_bool` is the host, `exec_scan` runs the body by the pure semantics on
the decoded bytes while `run` does to `mem` what the language document says.
The bytes are real: the emitter writes tags, lengths and little-endian operands,
`TlvValidator` walks them with the bounds of the generated C, one line per
copy of a function for a depth, and `TlvCode` reads them as the interpreter does. The three parts disagree about an image
only if the code's do.

### matiec at run time

**Sfc.** A scan is `begin_scan`, one `test_transition` per transition in the
order the generator prints them, `move_tokens`, one `action_association` per
association, and `actions_execution`. `X`, `prev`, `T`, `state`, `set`,
`reset`, `stored`, `set_rem`, `reset_rem` are fields of the code's `STEP` and
`ACTION` tables as sets and functions. A transition with a PRIORITY clears its
steps in its test and one without only after all tests (`taken`); `Insert` is
the generator's insertion into its list, the place of transitions without a
priority included. The condition of a transition is any Boolean at every test,
except that a pair in `Exclusive` is one the user wrote to exclude each other.
`__transition_list` starts each scan as the debugger's list, which is any set.

**LibTimers, LibCounters, LibControl.** The C text of each `*_body__` as a function of the
block's data and inputs, and each `*_init__`. `X_body` is the block without EN and ENO (`iec_std_FB_no_ENENO.h`), `X(en, ...)` the one
with them (`iec_std_FB.h`), where a call with EN off changes nothing that is read again. TIMEs are pairs of seconds and nanoseconds with the library's own
normalisation, in which exactly 10^9 nanoseconds stay as they are, so that one duration has two forms and
`time_cmp` is what the code's macro says of them. A REAL is an exact fraction in least terms, also what `__time_to_real` makes of a TIME. RTC is given dates on the
calendar whose seconds fit an `int`, the others end in `__iec_error` or in an overflow (`Dates_type`). The counters exist for five types
with one text: `word` says whether the type is signed. The same interpreter-independent `TimerSpec` and
`CounterSpec` serve as the abstraction of both tool chains' blocks, the timers' on the
instants of the enabled calls: a TIME is the number of its `Units`, parts of a second small enough that presets and instants
are whole numbers of them (`Exact`), and `Horizon` stands for the largest tick `TimerSpec` asks for.

**LibFunctions.** A call is a function, its operands and whether EN is on; `called` holds what it answered and its ENO, and
`en_eno` which of the two variants of the library the program is linked to. The macros that print one body for many types are one operator that takes the type's
width or bounds. A STRING is a body of at most `STR_MAX_LEN` characters with a length that wraps at `StrlenRange`;
its functions are translated loop by loop, the parsers of numbers, TIMEs and BCD as folds over the characters.

**Configuration.** `Generate` is `calculate_common_ticktime_c`: the common tick is the greatest common divisor
of the intervals met so far, `period` the least common multiple of the intervals counted
in it, as far as the code keeps it. A tick is `HostTick`, then for each resource `RunTasks` (the flags of its tasks) and one
`RunProgram` or `SkipProgram` per program, in the order the generator prints them. Programs may write the
globals that SINGLE tasks wait for. The `host` is `plc.c`, which counts up for ever, or one that starts again at
`greatest_tick_count__`, the value the generator prints for that purpose and no code of the repository reads.

### matiec from tree to C

**IlAnalysis, IlCompiler.** A list is a sequence of lines, each an operator with an operand,
a parenthesised list, or a jump. The actions are the stages of `stage3.cc` (`AnalyseFlow`, `PropagateConstants`, and
the three typing passes, the last with the report of errors), then `Generate`, then `Execute`, one line of the generated C
at a time. `__IL_DEFVAR` is a union: which member a C statement reads and
writes was decided when it was generated, from the type of the line before it and of its own. A
statement the C compiler would refuse ends the behaviour in `not_c`, a failed assertion of the generator in
`internal_error`. `MCIl` runs the language beside it: a current result with the set of types it may still have.

**StAnalysis, StCompiler.** A program is a tree of nodes; the passes note values, candidate types, types and declarations
in it. The generated C is executed one scan at a time. A call of a function that writes to a variable is
printed as a call of a wrapper numbered by `generate_c_st_c` where it stands and by `generate_c_inlinefcall_c` where the wrapper
is defined, two visitors with their own order; the model numbers them in both orders, and a call
whose number names another function's wrapper, or none, is not C. Arguments that are evaluated in an unspecified
order, and operators that C does not evaluate both sides of, are taken as C has them. `MCSt` says
what the language makes of the program, as the set of all ways it may go. Functions and blocks called have bodies
given by the run.

## 3. What the runs check

States are the distinct states TLC finds. The *violation* run checks one property
that a document states and that the code does not have (section 7).

| run | module | states | properties | what it shows |
|---|---|---|---|---|
| `timers_history` | MCTimers | 294 185 | OutputsMeetPresets, RefinesCombinators | under a tick that never falls, each output is what the requirements say of the *whole history of calls*; the flat timers implement the combinators |
| `timers_wrap` | MCTimers | 6 340 | TonReleases | around the wrap of the tick, a TON whose input is off lets go |
| `timers_wrap_pulse` | MCTimers | violation | PulseEnds | a TP pulse begun less than PT before the wrap never ends |
| `counters` | MCCounters | 191 476 | CountersTrackEdges, EdgesAndLatchesRemember, RefinesCombinators | with a literal PV, counters, F_TRIG and latches are functions of the history; with a PV that moves at will, counters are the combinators, whose integers are unbounded |
| `interp` | MCInterp | 356 035 | FramesNest, MatchesSpec, MatchesLanguage, CostWithinWcet, ScanEnds | whatever lengths a block holds no call reads past the code; the calls compute the pure semantics, gas that runs out included, and the language when it does not; cycles stay within the bound; a scan ends |
| `build` | MCBuild | 12 077 | ReadsPrecedence, SlotsHoldVariables, NothingSkipped, LoadsIfShallow, AcceptedIsWhole | expressions group as the standard says; after every scan each slot holds what the source leaves in its variable; no opcode of a compiled image is skipped; an image loads exactly if it nests at most five levels; a damaged image that is accepted is read as it was validated |
| `runtime` | MCRuntime | 3 779 | InitFromZero, ScanMeetsBudget, OnlyAcceptedRuns | for a host that heeds each load: scans run the accepted program, nothing is left of earlier ones, scans keep the budget |
| `sfc_tokens` | MCSfc | 4 935 | FlowsMarked, PulseOncePerEntry, PlaysTokenGame | choice by priority, choice by conditions, parallel branches, a join and a self loop: every scan plays the token game; a pulse runs once per entry |
| `sfc_timed` | MCSfc | 15 752 | FollowsStep, StoredInTime, ResetHolds | every timed qualifier under any elapsed time of a scan |
| `library` | MCLib | 417 995 | EdgesAreCounted, RegulatorsKeepCourse, RtcKeepsCalendar, FunctionsMeetStandard, ReleasedInTime, RefinesCombinators | TON, TOF, TP, the counters of signed and unsigned types and the latches implement the combinators; a counter is no further from where it was set than there were edges, never wraps and stops at PV and at zero, and F_TRIG is on exactly at falling edges; RAMP is on its line, PID passes from manual to automatic without a bump, RTC reads dates as the calendar has them, HYSTERESIS and SEMA remember; the standard functions answer what the standard says, and ENO is off for nothing but EN and operands that have no answer; programs run when they are due, by interval or trigger |
| `il` | MCIl | 131 627 | ScanAsLanguage, WellTyped, RejectedIsWrong, AcceptedIsC, ConstantsHold | where the language says what a list does the C does it, line by line; nothing ill-typed runs; what is rejected goes wrong on some memory; what is accepted is C; a folded constant is the value met |
| `st` | MCSt | 36 114 | StRejectsIllegal, StAcceptedIsC, OverlapsAreFound, StScanAsLanguage | legal programs and no others are accepted, apart from the exceptions named in the module; what is accepted links; overlapping CASE labels are found; a scan ends where the language says it does |

Every property of a passing run has a mutant in `PROJECT.json`: a changed
definition (a strict comparison, a dropped reset, a stale memory, a bound one
too small...) under which the same run finds the property violated. The mutated
forms stand in the modules just before the definitions they replace.

The history properties (`OutputsMeetPresets`, `CountersTrackEdges`, `EdgesAndLatchesRemember`, `EdgesAreCounted`,
`RegulatorsKeepCourse`, `RtcKeepsCalendar`, `FollowsStep`, `StoredInTime`, `ReleasedInTime`) are stated over
variables that only record what happened (`calls`; `course`, `clks`; `since`, `act`, `due`; `rises`, `served`, `elapsed`), not
over the component's own state, so that they are an independent account of what
the block should answer.

`StRejectsIllegal`, `StScanAsLanguage`, `AcceptedIsC`, `ConstantsHold` and `ReleasedInTime` hold but for conditions their
statements name (`Interfering`, `Misprinted`, `Miscounted`, `Reevaluated`, `Widened`; `SignedConstant`, `Overlooked`, `Widest`;
one backward jump; `FirstIsTick`). Each condition is a place where the code does not do what one would want, described in
section 7; as part of the property it says that there is no other such place in the programs of the run.

## 4. Bounds

* **Timers**: a preset of 25 us at a period of 10 us is 2 ticks, so the rounding
  loses 5 us; six calls, up to 3 ticks apart, are enough for a pulse to start,
  outlast its input, end at a rise (lost) and start again. Around the wrap the
  tick counts modulo 8, four presets: room for a timer to start, elapse and rest
  before, across and after the wrap.
* **Counters**: words of three bits (`IntMax = 3`, INT is -4..3). The guards
  compare with `PV` and with 0, and PV ranges over both ends of INT. Five calls show a rise before, in and after a reset. The proofs
  hold for every `IntMax`.
* **Interp**: words of three bits, two BOOL and two INT slots, one edge
  detector. `Straight` is every leaf followed by every leaf, with sources and
  destinations that overlap; `Blocks` is every shape of two levels; `OwnIndex` and
  `TopRange` are loops that write their variable or end at the largest INT;
  `Malformed` takes all lengths up to 2 or 3 in two headers over three cells, from
  the zero memory alone. Gas 10 is enough for straight code, IFs and short loops,
  and runs out in nested loops over more than a few values, in the middle of a body
  and at the head of a block: the ghost `starved` tells the two apart.
  `LoopBound = 10` exceeds the 8 values of INT. The costs used stay below
  `WordMod`, as the zero costs of the sources do.
* **Build**: INT has its 16 bits. `Programs` are all expressions of one and two operators over a
  variable, a constant and an instance's output, every comparison in every place of a condition, blocks that
  share scratch slots, nesting and ELSIF chains up to one level more than the validator takes, one call of
  every function block, and programs the compiler must refuse. Two scans (`MaxScans`) show an edge. `Fragile` programs
  have any one byte changed to one of eight values: lengths too short and too long, and tags of both block opcodes. Sixteen BOOL and
  twelve INT slots exceed every program.
* **Runtime**: six images: one light, one dear, one that reads what should be
  zero, one that writes its control variable, one the validator refuses, one of
  a wrong size; budgets none, too small for the dear one, large enough. The
  state space is finite without a bound on the number of calls.
* **Sfc**: `TMax` saturates `step.T` at the longest action time; `Elapsed`
  0..2 contains no progress, an exact hit and a jump past a delay. In
  `sfc_tokens` time stands still, which P, P1, P0 and N do not read.
* **Library**: instants half a second apart, up to two and a half seconds (`Unit = 2`, `Horizon = 5`), and a preset of half a second, so that a sum of nanoseconds reaches exactly a
  second, where the two forms of a TIME differ. Counters have words of two bits (`WordMax = 1`), -2..1 when signed and 0..3 when not, and PV is
  written as -2, 1 or 3: both ends of the first type and the top of both. Calls are not bounded; the history of one counter of the three is kept since R or LD, its edges up to one
  more than the type has values left (`OneMore`). REAL inputs are -1 and 3;
  five calls let a ramp of one second reach its end and be restarted. RTC is called three times, from dates at the
  ends of months, of leap years, before 1970 and before 2038. Functions get integers and bit strings of three bits (`Width`), REALs in quarters about the
  ends of the types they are converted to, all texts of up to three characters over two letters where `STR_MAX_LEN` is 3 and lengths wrap at 7, and the texts of
  numbers, TIMEs and BCD listed in the module; instants about zero and midnight. Durations of tasks are in units of half a millisecond and a
  second has six (`Nanos`), `UlMax` is 15 for 2^32 - 1 and `UllMax` 255 for 2^64 - 1, and behaviours have 17 ticks, so that the count of a wrapping host starts anew
  within them. Configurations have three intervals from {1, 2, 3, 5} ms in two resources, three more with seconds, with fractions
  of a millisecond and with intervals whose multiple passes `UlMax`, two whose product of periods passes `UllMax`, to zero and to a period that is too short, and two whose tasks wait for an input and for a global that programs
  of both resources write, in one of them without any interval.
* **Il**: types of two and of three bits of each kind in place of the code's 8 to 64; folding is done in four bits (`Top = 4`).
  `Flow` has every pair of instructions, with jumps to every line, between a load and a store, on every memory. `Arithmetic` has every operator on variables of every type and
  literals about the limits, chains of constants, constants and variables round a loop, two loads that meet at a label, and lists in parentheses.
  Seven lines are executed (`MaxSteps`).
* **St**: the same widths. C computes in its own `int`, the widest of the types. 5 984 programs: all operators on all kinds of operands, FOR loops with bounds at and past the
  limits and with negative and zero steps, jumps out of loops, CASE with overlapping, reversed and nested labels, calls with outputs in every place
  an expression may stand, overloaded functions, calls of two blocks with and without names, IN_OUTs and VAR_EXTERNALs. Loops go round at most `MaxLoops` = 8 times in a scan
  and two scans are run from two memories; a program that needs more is left open by the language.

## 5. Fairness

* `timers_wrap`: `WF(WrapScan)`. The usage comment of `lowplc_runtime.h` has the host call
  `lowplc_exec_scan` in an endless loop, so scans do not stop (`main_bringup.c`, a test of three scans, does stop); nothing is assumed of the input. `TonReleases` assumes in its statement
  that the input stays off; `PulseEnds` assumes nothing more and fails.
* `interp`: `WF(Step /\ History)`. A call of the interpreter runs on the only
  thread to its end.

No other run assumes fairness. Sfc and the library state no liveness property: whether a chart
progresses or a block is called depends on what the user writes. Compilers are sequences of stages that end.

## 6. What is proved

Eight modules hold theorems. They are checked by TLAPS for every value of the
constants under the named assumptions of the modules (`TimerAssumption`,
`InterpAssumption`, `CallAssumption`, `WcetAssumption`, `RuntimeAssumption`, `ChartAssumption`,
`SfcAssumption`, `LibTimerAssumption`, `LibCounterAssumption`, `ControlAssumption`, `FunctionAssumption`, `ConfigurationAssumption`...), which say of which sets the constants are. Any further hypothesis is in the table.

| theorem | module | statement | hypotheses |
|---|---|---|---|
| TimerTypes, OutputsNeverStale | TimerProofs | `[]TypeOK`, `[]OutputFollowsState` | |
| MonotoneTickMeetsGuard, MonotoneTickAnswersInput | TimerProofs | `[]NoCallSkipped`, `[]AnswersInput` | `Monotone` |
| **TimersRefineCombinators** | TimerProofs | `Spec => RefinesCombinators` | `Monotone`, `PT > 0` |
| **OutputsAnswerFromCalls** | TimerProofs | `HSpec => []OutputsMeetPresets` | |
| CounterTypes, CountersSaturate, CtuStaysNonNegative | CounterProofs | counters stay in INT, move by at most one, CTU never below 0 | |
| **CountersRefineCombinators** | CounterProofs | `Spec => RefinesCombinators` | |
| **CountsAreOfEdges**, **LatchesAnswerFromCalls** | CounterProofs | `HSpec => []CountersTrackEdges`, `HSpec => []EdgesAndLatchesRemember` | |
| InterpTypes, ReadsStayInCode, BodiesStayInBlocks | CallProofs | `[]TypeOK`, `[]FramesInCode`, `[]BlocksNest` | |
| **ReadsStayInPlace** | CallProofs | `Spec => []FramesNest` | |
| **MachineMeetsSemantics** | CallProofs | `Spec => []MatchesSpec` | |
| **CyclesStayWithinWcet** | CallProofs | `Spec => []CostWithinWcet` | the bound of each program is below `WordMod` |
| RuntimeTypes | RuntimeProofs | `Spec => []TypeOK` | |
| **LoadsStartFromZero** | RuntimeProofs | `Spec => []InitFromZero` | images the validator accepts name slots that are there |
| **OnlyAcceptedProgramsRun** | RuntimeProofs | `Spec => []OnlyAcceptedRuns` | `Host = "each"` |
| **ScansMeetBudget** | RuntimeProofs | `Spec => []ScanMeetsBudget` | `Host = "each"`, bounds below `WordMod` |
| ChartTypes | SfcProofs | `Spec => []TypeOK` | |
| **ScanPlaysTokenGame** | SfcProofs | `Spec => PlaysTokenGame` | `ChoicesMade` |
| **FlowsStayMarked** | SfcProofs | `Spec => []FlowsMarked` | `ChoicesMade`, `FlowsConserved` |
| **ResetAlwaysHolds** | SfcProofs | `Spec => []ResetHolds` | |
| **ActionsFollowSteps**, **PulsesComeOnce** | SfcProofs | `HSpec => []FollowsStep`, `HSpec => []PulseOncePerEntry` | |
| **StoredActionsKeepTime** | SfcProofs | `HSpec => []StoredInTime` | |
| **LibraryBlocksAreCombinators** | LibProofs | `Spec => RefinesCombinators` | `PT # T#0s` |
| TickDividesIntervals | LibProofs | of any configuration that is accepted: its tick divides the intervals; its period, where the first interval does, is whole intervals | |
| **ProgramsRunInTime** | LibProofs | `Spec => []ReleasedInTime` | |
| SwitchesAlwaysRemember | LibProofs | `Spec => []SwitchesRemember`, the last part of `RegulatorsKeepCourse` | |
| **RegulatorsAlwaysKeepCourse** | LibProofs | `Spec => []RegulatorsKeepCourse` | |
| **RtcAlwaysKeepsCalendar** | LibProofs | `Spec => []RtcKeepsCalendar` | |
| **LibraryCountsEdges** | LibProofs | `Spec => []EdgesAreCounted` | |
| LibraryAlwaysTyped | LibProofs | `Spec => []TypeOK` | |
| FunctionsAlwaysMeetStandard | FunctionProofs | `Spec => [](called # <<>> /\ called.fn \notin OnlyChecked => FunctionsMeetStandard)`: 49 of the 61 functions | |

The theorems in bold state a property that a run checks; the others are what they rest on, or
say what no run needs to repeat. Each run whose property is stated uses constants that meet the hypotheses, which
are those of the code: a time between calls that is not zero and a date whose days in seconds fit an `int` (`ControlAssumption`), a host that reads the result of a load, a tick that is not
set back, a preset that is not zero (with one, TP answers with a pulse of a scan where the combinator gives none: section 7), a bound that a `uint32_t` holds (it is latent that it may not: section 7), a compiler that
writes indices in the pool (`NothingSkipped`), charts whose divergences are decided.
`ChoicesMade` says that any two transitions that leave a common step are both ranked or exclude each other,
`FlowsConserved` that a transition takes from a flow as many tokens as it puts there; `MCSfc` assumes both, so that
TLC evaluates them for the chart of every run.

### The arguments

**The interpreter computes the semantics.** `InterpProofs` gives every pending call a
meaning, a function from the pool in front of it to the pool behind it: for a
call of `exec_stmts` what the semantics computes of its section with its gas, for a loop what
`exec_for_iter` computes of the iterations that are left, and for one that waits for its body that, after
the increment. The composition of the meanings of the stack, applied
to the pool, is the invariant: it never changes (`Meaning`). A step of the machine
unfolds the semantics once (`IfLevel`, `ForLevel`, `StatementMeans`...). It holds without any bound on gas, since
the calls of both pass on the same gas, and it is false where an index is outside its
pool or an ELSE reaches out of the code: this is how `Meaningful` came into the statement. The invariant carries
`IInv` with it: each frame is typed, its `off + rem` lies in the code because
of the code's own tests, and one that waits for a body has an iteration and gas left. `FramesInCode` alone says nothing
of the frame a FOR returns to.

**The cycles stay within the bound.** `InterpProofs` gives every pending call a bound of its own; the cycles
spent and the bounds of the pending calls together never exceed the bound of the
whole (`Paid`). The iterations of a loop run with less and less gas while the bound of the load takes all of them at the gas
of the first, so that the argument needs a lemma of its own: the bound does not decrease when gas
does (`BoundGrows`). This is proved of integers; a word that holds the whole bound never wraps on
the way, because every part is at most the whole (`WordHoldsBound`).

**Induction over data.** The library's induction theorems take a predicate and cannot be used here. That a
recursive function on numbers exists, has its values in a set and is
monotone is proved by sets in their place: a set of numbers that contains 0 and the
successor of each of its members is all of Nat, by the well-foundedness of the order (`SetInduction`).

**Runtime.** `RInv`: during a load the meaning of the stack, applied to the pool, is the
initial pool of the image in place; during a scan the cycles are paid out of the bound of its body; in between there is nothing to say.
`Settled` says that outside an error the image in place is the accepted one, while a scan is running and also
between a load and the first scan.

**Timers and counters.** The refinements need that no start lies ahead of the tick
(`Safe`), without which a call is skipped. For the properties over histories (`HistoryInv`, `HInv`) the
state of a block is related to the calls it has seen: an idle TON has seen its input off at the last call, a running one has seen it on since `start`; a CTU holds the
number of rises since the last reset or PV, whichever is less. CTUD has no such closed form once it
saturates, and the invariant says what remains: no more than the net rises, and exactly
those when no CD rose.

**Library.** A TIME is the number of its nanoseconds, and `time_cmp` compares these as long as one of its operands has less
than a second of them in `nsec` and the other no more (`Compares`); instants and presets are normalised, so that the sums the blocks
compare are within that, although they may have the second form of exactly 10^9 nanoseconds. The invariant says of
each timer what its combinator forgets: a timer that is not running has a `start_time` left over, `TonRests`, `TpRests` and `TofRests`
say which state and output go with which last input. The counters' argument is that a cast to the counter's type never wraps, since each is guarded
by the preset or by 0, which are of the type (`InBetween`, `CastInType`). CTUD tests an edge and the bound at once where the combinator
tests the bound inside the edge; for an edge up at PV both do nothing, because CD has no edge then.

**Fractions.** A REAL of `LibControl` has the least denominator that it can have, which a recursive function looks for; that
there is one (`DenominatorLeast`) and that two fractions with the same value are the same pair (`SameReal`) makes `++`, `--`, `**` and `//`
the operations of the rationals (`Sums`), so that the laws the regulators need can be used of them (`ProductOfSum`, `QuotientOfSum`, `QuotientOfProduct`...).

**RAMP.** The nanoseconds of `t` are those of `CYCLE` times the calls with RUN since the last without, unless the ramp is already over
(`RampSoFar`): whatever form the sum of two TIMEs has, its nanoseconds are right (`RampTick`), so that the output is on the line. The test for
the end compares the forms; it can only be late, and by no more than one call (`RampRuns`).

**PID.** The state is a closed form of the calls (`PidInv`): the integral is the base of the last manual call times TR and CYCLE times the sum of the errors since, the samples of the
derivative are the last three errors, those from before a manual call replaced by its own. A manual call makes the integral TR times X0 less its error, so that the
output has no other part than KP times X0; from there each call adds to the form what it should (`CourseGrows`, `SlopeOf`).

**RTC.** Seconds become a date by loops over years and months, and a date becomes seconds by counting leap days. Both are related to the number of days before a year
(`YearStart`), which grows by the length of the year (`NextYear`): the loops end in the year in which the day lies (`YearReads`), of which there is
only one (`OneYear`), the month is the one whose table entries enclose the day (`MonthFound`), and a date on the calendar is determined by its day (`OneDate`). The calendar that
counts day by day goes on by one in that number (`NextDayIs`), also at the ends of months and years, so that the date
`SecondsLater` and the one the code computes have the same number (`SecondsLaterIs`, `SecondsFound`). That the 32 bits of the product of days and seconds are enough is
`SecondsOf`. The invariant `RtcInv` says from which rise the offset is.

**Functions.** A function keeps no state, so that the invariant is of the last call alone (`FunctionInv`), and the proof one lemma for
each function. What several of them rest on:
a conversion into a type is the only value of the type congruent to its operand (`Moved`), which gives the
sums and products of any number of operands; the quotient of C is the number closest to the fraction on the side of zero
(`Divided`), of which DIV, MOD, TRUNC and the TIMEs are made; numbers, TIMEs and STRINGs of any letters are totally
ordered by what `__cmp` answers (`EveryKindOrdered`), from which MAX, MIN, LIMIT and the six comparisons of any number of
operands follow together; `normalize_timespec` keeps the value of a TIME, of either sign (`Normalizes`). STRINGs are cut and joined
within `STR_MAX_LEN` whatever lengths and places are asked for; lengths are numbers modulo `StrlenRange`, and below it
this does not show, since the sum of two lengths of STRINGs stays below it too (`InsertAnswers`, `ReplaceAnswers`); a place or number of
characters of `StrlenRange` itself the property leaves out. `AnsweredWell` is the part of EN and ENO, for all of them at once.
Three laws are assumed, in `FunctionAssumption`, where TLC evaluates them: that the parts of a STRING that is given are given too, that
instants are in halves of seconds, and that 2 ^ `Width` doubles with `Width`, which the provers do not know.

**Counters of the library.** `CountersTyped` would hold of counters that wrap: every result of the code passes its cast. What rules a wrap out
is `EdgesAreCounted`, and its invariant compares the counter with the `course` of the calls since R or LD (`CourseInv`): the count lies
between where it was set less the edges down and the same plus the edges up, so that a count that jumped to the other end of its type
would be too far from there. For this to be said of every number of calls, the edges of a course are counted up to one more than there are values
left on that side (`OneMoreIs`): a counter that went past its end would have to be there by then. The blocks know edges from the memories of their
triggers, the course from the inputs of the calls; that the two agree is `LastCalls`, with which a call
keeps `CountedRight`, for CTU, CTD and CTUD alone (`CtuFollowed`, `CtdFollowed`, `CtudFollowed`). The word of the type and PV are any.

**Types of the library.** The types say where values lie, which the statements of the others presuppose, and no more. The blocks of a family have their types from the invariant of that family and keep them in the others
(`ControlsKept`); timers keep theirs also with a preset of zero, for which the refinement says nothing (`TimersKept`). For the scheduling
`ScheduleShape` adds to `ScheduleInv` that a tick that is begun is below the bound and that the flags are lists.

**Configuration.** The static half says what the generator has computed when it is through with the tasks. That
`GCM` is defined on all positive numbers, though each row of it reads earlier rows and its own definition reads later ones when its
arguments are in the wrong order, is Euclid's argument over sets of numbers (`GcmsExist`, `GcmsAgree`, `GcmDefined`); it divides
both arguments (`GcmDivides`). Task by task and resource by resource, `Promises` says of the tasks visited so far that the tick divides their
intervals and, where the first interval divides the others, that the tick is that interval and the period a multiple of
each interval in ticks. The dynamic half is `ScheduleInv`. A host that starts to count anew has left out a number of greatest counts, which are
whole periods (`TicksCounted`), so that the tick decides as the time since the start would (`TickDecides`); the programs that have had their turn in the
current tick have run if that time has come (`RanWhenDue`). For triggers the invariant counts ahead: how often a
program ran, the run its task's flag still promises and the rise that its R_TRIG has not sampled yet are together at most
the rises of the global (`RisesCover`); a memory that is set has been served or is about to be
(`MemoryServed`); and a memory agrees with a global that nobody has written to since the tick began (`EdgeSeen`), without which the
ghosts could not start anew with a tick.

**SFC.** `TokenInv` makes the loop of tests atomic: the tokens taken so far are those of
ranked transitions that won; all were there at the start, and none was won twice. For the
actions, the scan passes through its associations one by one, and the invariant (`DrivenInv`, `StoredInv`) says of
those already visited what they did and of the others that nothing has happened; `Sync` ties `step.T` and the pulses to the history.
What an action has in `remaining` is what its limit has left since the entry, or 0.
Proving `FollowsStep`, `PulseOncePerEntry` and `StoredInTime` showed that they were not true of all charts: a D variable stays TRUE when
its step restarts itself, a P0 variable until its step is next active, and a time of T#0s is never due (section 7). The runs'
charts had none of these; the statements now say it, and `MCSfc` has charts that do.

### What is model-checked only

The liveness properties (`TonReleases`, `ScanEnds`), as the prover has no rule for fairness.
`MatchesLanguage`, whose reference follows the nesting of programs; everything of the two compilers and of
`Build`: their trees need recursive operators, with which a module is out of the prover's reach. Of `FunctionsMeetStandard` the twelve functions of `OnlyChecked`: FIND goes through its operand by a recursion over data;
SHL, SHR, NOT and the conversions between numbers and bit strings are stated by the value of a set of binary digits, a sum of powers of two, and the
conversions of BCD and from STRINGs by decimal digits; of powers and of sums over sets the provers know nothing.

## 7. Where code, documents and language disagree

Kept as a violation run, with the lines quoted in `PROJECT.json`:

* **Wrap of the tick** (`timers_wrap_pulse`). The timers test `tick >= start` and do
  nothing otherwise; the 32-bit tick that `lowplc_set_tick` takes wraps. A TP pulse
  started less than PT before the wrap never ends: after the wrap its calls are
  skipped until the tick is back at the start, where little time has elapsed again.
  The F* comments take a growing tick as guaranteed.

The rest was met while modelling. Each is in the model as the code has it; where a property would fail
because of it, the property says so.

### LowPLC

* **F_TRIG.** The specification (`analysis/lowplcst_spec.md:717`) starts from a memory FALSE of the
  *inverted* input and answers TRUE on a first call with CLK off; the interpreter does
  not.
* **FOR.** The number of iterations is fixed before the loop; `analysis/tlv_format.md:247` gives the rule of a while loop,
  which a body that writes the control variable tells apart. A loop TO 32767 ends with its variable wrapped to -32768;
  the while rule would not end.
* **Usage comment.** `lowplc_runtime.h:12` tests `!lowplc_load_program(...)` for the
  rejected case, and success is 0.
* After the wrap a running TON or TOF ignores its input until the tick is past its start
  again.
* `LowPLC.TP.fst` has a lemma that PT = 0 gives no pulse; the interpreter's TP, which inlines
  its own code, gives one of one scan, also for a preset below the scan period.
* An opcode with an index outside the pool is skipped by the machine; the pure semantics
  it mirrors reads FALSE or 0 there. Of an IF whose ELSE alone leaves the code, the
  semantics runs the THEN and the machine nothing. `MatchesSpec` speaks of well-formed programs
  with indices in the pool.
* When gas ends, the document says that execution halts with an error; the code goes on
  after the starved block and reports nothing.
* The cycle bound is a product in 32 bits (`lowplc_runtime.c:261`) and wraps, and a program refused for its bound is
  already installed, so that a host which ignores the refusal runs it. Both are latent: every
  cost in the sources is 0.
* Presets: the compiler writes ticks of its own period (`lowplcst_parser.py:1621`), the interpreter divides
  microseconds, as the comment at `lowplc_runtime.c:342` says. The timers of a compiled program are far too
  short.
* A negative initial value is not written: `-5` is an operator on a literal, and `lowplcst_parser.py:1247` takes literals only. The parser rejects
  negative literals as bounds of a FOR, and takes a CONFIGURATION without INTERVAL as a tick of 0, which presets are then
  divided by.
* The validator accepts a block with no payload, and tags it does not know with length 0, where `LowPLC_TLV.3d:4` says that
  every tag is a known opcode; the interpreter reads the bytes that follow as the header of the empty block. `AcceptedIsWhole` leaves empty blocks
  aside (`EmptyBlock`).
* `LowPLC_TLV.3d:7` promises bounds on pool indices that its types do not contain. `NothingSkipped` shows that the images of the
  compiler keep them.
* `LOWPLC_ERR_INVALID_PERIOD` and `LOWPLC_MAX_TLV_SIZE` are used and not defined;
  callers pass four or five arguments to the load; `LOWPLC_MAX_FOR_ITERS` is
  enforced nowhere; the runtime keeps a pointer to the host's buffer.
* `gas_monotone` is admitted in `LowPLC.Interp.Impl.fst`; the header of
  `LowPLC.Interp.Low.fst` and `analysis/proof_status.md` cite files that do not exist.

### SFC

* **SL entered again** (`generate_c_sfc.cc:915`). The reset found due at the start of a scan
  also cancels an activation in that scan. `StoredInTime` asks that SL never overruns, not that it runs its whole time.
* An SD or DS action with a delay of T#0s is never stored, and an SL action with one is never reset: 0 also means not
  pending (`generate_c_sfc.cc:815`). `StoredInTime` speaks of times that are not zero.
* A variable driven by D stays TRUE when its step restarts itself, until the step is left (`generate_c_sfc.cc:603`); `FollowsStep`
  speaks of it as such.
* On an initial step P, P1, SL, SD and DS do not act at the start, since the step
  is never *activated*; a step that restarts itself is not activated either; an N
  action two steps share depends on the order of declaration (`generate_c_sfc.cc:570`); a P0 on a BOOL variable
  leaves it at 1 until the step is active again; R does not cancel a pending SD; two transitions without a
  priority that are true together duplicate a token (the charts here exclude it, by
  `ChoicesMade`); the generated text has unbalanced braces when `PLC_NO_DEBUG` is
  defined (`generate_c_sfc.cc:747`); `elapsed_time` comes from a clock that can be set
  back.

### Library and configuration

* The library's F_TRIG answers TRUE on a first call with CLK off, unlike the interpreter's, and is therefore outside `RefinesCombinators`; `EdgesAreCounted` says it. TP with PT = 0 gives a pulse of one scan.
* RAMP's BUSY ends one call late when the nanoseconds sum to exactly 10^9; RUN at the first call ramps from 0. A CYCLE or TR of zero divides by zero
  in DERIVATIVE and PID.
* FIND (`iec_std_functions.h:1442`) goes on after a partial match without stepping back, and misses "ab" in "aab". REPLACE cuts IN2 to L characters. LIMIT with MN above MX
  answers one of them; MUX with a negative K, and one past the last operand, the initial value, ENO being off for the second alone.
* A REAL, an integer or a TIME is read from text by loops that count from the wrong end of an exponent, take an underscore or a character past '.' for the start
  of the number, and drop the fraction of a TIME; `StringsAnswer` and `ConversionsAnswer` speak of the texts a program has written itself.
* `__time_mul` computes nanoseconds in 32 bits: products past 2.147 s of them are wrong. A midnight before 1970 is counted to the day before
  (`DT_TO_DATE`, `DT_TO_TOD`). A product or quotient of a negative TIME is a conversion C does not define.
* `__date_to_timespec` multiplies in 32 bits (`iec_types.h:38`): dates end in January 2038, and begin in December 1901.
* **Common period.** The comment at `generate_c.cc:667` says that after `common_period` ticks all periods align again. When a later
  interval makes the tick shorter, the period counted so far is not rescaled: 20 ms then 30 ms gives 3 ticks in place of 6, and the 20 ms
  task slips when a host starts the count anew at `greatest_tick_count__`. `FirstIsTick` is the condition under which
  `IntervalsKept` holds for such a host.
* The product `common_period * task_period` (`generate_c.cc:704`) has 64 bits and is not looked at before it is divided. Intervals of
  1 ns, 2^31 ns and 2^33 ns make it 2^64, and the period 0: with another interval the generator divides by zero in `GCM`, without one in
  `get_greatest_tick_count`. Other intervals leave a period that is too short, which is accepted. `FirstIsTick` asks that no product
  overflowed (`plan.exact`).
* An interval of T#0s makes the generator divide by zero, though the code it prints has a case for it (`generate_c.cc:2098`).
* `plc.c` does not look at `greatest_tick_count__` and passes an `int`; its `run()` never sets `__CURRENT_TIME`.
* The INTERVAL of a SINGLE task is ignored when it runs and counted in the tick; PRIORITY is ignored; a trigger shorter than the
  time between two samplings is lost; a global that is TRUE from the start releases its task at the first tick; tasks of one name in two
  resources are two definitions of one C variable.

### Instruction List

* Folding ANDN, ORN and XORN negates the result in place of the operand. (`ConstantsHold` leaves lists with them aside.)
* The folded value of a comparison is overwritten by that of the types tried after it.
* Parentheses inside parentheses get no flow links. A Structured Text expression in parentheses retypes the enclosing instruction and
  ends in an internal error.
* `JMP` to itself and loops without a load before the backward jump never get a type: the first is not C, the second is rejected
  although legal. Dead code is rejected. Two loads of different types that meet at a label are rejected.
* Chained backward jumps need a third pass where `fill_candidate_datatypes.cc:1697` says two suffice: `AcceptedIsC` and `RejectedIsWrong` say
  for which lists they do.
* MOD of the least LINT by -1 counts as an overflow. MOD by zero is a bare `%` in C from IL, guarded from ST, and legal in
  `constant_folding.cc:470`. INT times TIME is accepted and printed as `__time_mul` with its operands the wrong way round.

### Structured Text

* A call with outputs inside the parameters of another has no wrapper, and the program does not link. XOR of BOOLs, MOD and the bounds of a FOR with BY print
  an operand more than once, so that calls in them have numbers of no wrapper (`Misprinted`).
* Inputs of a block given by name in another order than declared permute the numbers of wrappers: the program compiles, and each call runs with
  the other's variables.
* Operands with effects on each other are evaluated in the order the C compiler likes, and AND and OR need not evaluate both (`Interfering`).
* A FOR up to the largest value of its type never ends. Its end and step are evaluated each time round (`Reevaluated`).
* A VAR_EXTERNAL of a block takes a positional argument of its own; an explicit EN is passed over by the type check and gets the first argument
  from the generator (`Miscounted`).
* NOT of a narrow bit string has its high bits set when it is compared (`Widened`).
* What the bounds of a FOR write escapes `lvalue_check`; EXIT and CONTINUE outside a loop are accepted; labels of a CASE of the wrong type are never
  reported (`Overlooked`). Signed literals under NOT and a second minus are not checked against their range (`SignedConstant`).
* A CASE subrange of all 64-bit values is refused as an array too large (`Widest`); one from a limit above the largest signed value to a negative one ends
  in an internal error (`array_range_check.cc:243`). A CASE in the ELSE of another is never checked for overlaps. Overlaps are a warning only.
* The visitors of comparisons in `constant_folding.cc` have no return statement; the model takes them to return.

## 8. What is abstracted, and what is not modelled

* **Interp** counts cells, not bytes: the tests of the length of a leaf's operands are
  left out there, and done on bytes in `TlvCode`. R_TRIG stands for the function
  blocks in `Interp`; `Timers` and `Counters` model what each of them computes.
* **Timers** leave ET out (no opcode reads it), and the branch for phase 2 of TOF and TP,
  which `TypeOK` shows unreachable.
* **Runtime** gives all images the same pool counts and leaves out `lowplc_set_tick`,
  which only timers read, and the getters, which change nothing. A bound that wraps is not among its runs.
* **Build** starts from tokens: the lexer, the listing and the command line are left out. A damaged image is validated and decoded, not
  scanned; images with function blocks other than R_TRIG are compiled, validated and decoded, and not scanned.
* **Sfc** does not run the bodies of actions, has no forced values, and takes conditions
  to be any Boolean. `Elapsed` is natural: a clock set back is left out. `FollowsStep` speaks of actions that one association names.
* **Library**: forced variables (`accessor.h`), the functions of `math.h` and EXPT, the rounding of REALs, TIMEs and dates as text and time literals are left
  out. A function is not called where C gives it no meaning: positions of 0, shifts by the width or more, negative lengths without EN and ENO, a negative TIME
  that is multiplied; nor REPLACE with more characters than a STRING has.
* **Configuration**: programs do nothing but write trigger globals; connections of program variables are left out, and so
  are the threads of `tests/main.c`, which may run `config_run__` twice at a time: what goes wrong then happens inside programs,
  which are single steps here.
* **Il** and **St** leave out REAL, TIME, text, enumerations, arrays and structures, extensible functions, and in lists function calls
  and nested parentheses. Messages are left out. Functions and blocks have given bodies: a call inside a called body is not followed.
  A scan of Structured Text is one step.
* **Not modelled**: the Low* wrappers of function blocks (the firmware does not link them), F* lemmas, the measurement code; of matiec the lexer and
  grammar (generated automata), symbol tables, declarations of the generated C (`generate_c_vardecl.cc`, `generate_c_typedecl.cc`),
  the IEC generator and the command line. `PROJECT.json` gives a reason for each. Most are text processing without behaviour over time.

The modules that use RECURSIVE operators (`Build` and what it extends, the two compilers) are out of the
prover's reach as they stand.

## 9. Plan

In this order, by what can go wrong unnoticed:

1. `Interp` and `Runtime` with all function blocks, images of different pool counts,
   `lowplc_set_tick` and a cycle bound that wraps; then `Build` with all of them scanned.
2. The overlap of scans in `tests/main.c`: programs of several steps in `Configuration`, two calls of `config_run__` at a time.
3. Forced variables (`accessor.h`) and retain; negative elapsed times and shared actions in `Sfc`; program connections of a configuration.
4. TIME and REAL in the two compilers, arrays and their bounds, functions in lists; declarations and initial values.
5. The lexer's stack of states with the symbol tables.

Proofs to follow: the value of a bit string and of a row of digits, and with them the twelve functions of `OnlyChecked`.
