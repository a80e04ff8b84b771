------------------------------- MODULE Build -------------------------------
(***************************************************************************)
(* From the text of a program to its scans: tools/lowplcst_parser.py       *)
(* compiles it, lowplc_load_program of firmware/lowplc_runtime.c has the   *)
(* image validated and runs its init section, and the host writes inputs   *)
(* and scans.  The machine runs the decoded image by the pure semantics,   *)
(* InterpSpec; what its steps are is the subject of Interp.                *)
(***************************************************************************)
EXTENDS Emitter, TlvCode, StLanguage

CONSTANTS
    Programs,               \* the trees of the programs
    NBools, NInts, NTrigs,  \* the slots of each pool
    Gas,                    \* LOWPLC_INTERP_GAS
    HostInputs,             \* the variables the host writes
    MaxScans,               \* bound: scans of one program
    Fragile,                \* the programs whose image may be damaged
    Bytes                   \* bound: what a damaged byte may become

VARIABLES
    prog,   \* the program, as a tree
    phase,  \* "source", then "image" or "rejected", then "loaded" or "refused"
    image,  \* the bytes the compiler wrote
    pool,   \* the pools of the interpreter
    mem,    \* the memory of the language,
    scans,  \*   the scans so far, and
    damaged \*   whether the image is still the compiler's (none is in the code)

vars == <<prog, phase, image, pool, mem, scans, damaged>>

M == INSTANCE InterpSpec

ZeroPool == [bools |-> [k \in 0 .. NBools - 1 |-> FALSE], ints |-> [k \in 0 .. NInts - 1 |-> 0],
             rtrigs |-> [k \in 0 .. NTrigs - 1 |-> FALSE]]

(* A section of the image, run from pool p.                                *)
RunSection(off, len, p) ==
    LET cells == Decode(image, off, len) IN M!exec_stmts(cells, 0, Len(cells), p, Gas)
RunInit(p) == RunSection(HeaderLen, InitLen(image), p)
RunBody(p) == RunSection(HeaderLen + InitLen(image), BodyLen(image), p)

Init ==
    /\ prog \in Programs
    /\ phase = "source" /\ image = Rejected
    /\ pool = ZeroPool /\ mem = Initial(prog) /\ scans = 0 /\ damaged = FALSE

compile_file ==
    /\ phase = "source"
    /\ image' = compile(TextOf(prog))
    /\ phase' = IF image' = Rejected THEN "rejected" ELSE "image"
    /\ UNCHANGED <<prog, pool, mem, scans, damaged>>

(* One byte of the image changes on its way to the controller.             *)
damage(off, byte) ==
    /\ phase = "image" /\ ~damaged /\ prog \in Fragile
    /\ image' = [image EXCEPT ![off] = byte]
    /\ damaged' = TRUE
    /\ UNCHANGED <<prog, phase, pool, mem, scans>>

load_program ==
    /\ phase = "image"
    /\ IF CheckLowPlcprogram(image)
       THEN phase' = "loaded" /\ pool' = RunInit(ZeroPool)
       ELSE phase' = "refused" /\ UNCHANGED pool
    /\ UNCHANGED <<prog, image, mem, scans, damaged>>

(* Bound: programs whose only function blocks are R_TRIGs are scanned.     *)
Scanned == ~damaged /\ \A k \in DOMAIN prog.vars : prog.vars[k].type \in {"BOOL", "INT", "TIME", "R_TRIG"}

(* The host finds the slot of a variable in the compiler's listing.        *)
set_bool(name, val) ==
    /\ phase = "loaded" /\ Scanned
    /\ LET slots == allocate_pools(prog).slots["BOOL"]
       IN  <<name, "">> \in DOMAIN slots /\ pool' = [pool EXCEPT !.bools[slots[<<name, "">>]] = val]
    /\ mem' = [mem EXCEPT ![<<name, "">>] = val]
    /\ UNCHANGED <<prog, phase, image, scans, damaged>>

exec_scan ==
    /\ phase = "loaded" /\ Scanned /\ scans < MaxScans
    /\ pool' = RunBody(pool)
    /\ mem' = run(prog.body, mem)
    /\ scans' = scans + 1
    /\ UNCHANGED <<prog, phase, image, damaged>>

Done == phase \in {"loaded", "rejected", "refused"} /\ UNCHANGED vars

Next == \/ compile_file \/ load_program \/ exec_scan \/ Done
        \/ \E off \in 1 .. Len(image), byte \in Bytes : damage(off, byte)
        \/ \E name \in HostInputs, val \in BOOLEAN : set_bool(name, val)
Spec == Init /\ [][Next]_vars

-----------------------------------------------------------------------------
(* The parser reads an expression as the grammar means it: a text with no  *)
(* more parentheses than the precedence of the operators requires gives    *)
(* back its tree.                                                          *)
ReadsPrecedence == phase = "source" => parse(TextOf(prog)).ok /\ parse(TextOf(prog)).x = prog

(* Between scans every variable the program uses has in its slot the value *)
(* the language gives it, whatever the scratch slots hold: no partial      *)
(* result overwrites a variable or another partial result, conditions and  *)
(* edges are seen as written, and the host's slots are those of the body.  *)
SlotsHoldVariables ==
    phase = "loaded" /\ Scanned =>
        LET slots == allocate_pools(prog).slots
        IN  /\ \A key \in DOMAIN slots["BOOL"] : pool.bools[slots["BOOL"][key]] = mem[key]
            /\ \A key \in DOMAIN slots["INT"] : pool.ints[slots["INT"][key]] = mem[key]

(* Every index in an image the compiler writes is below the count its      *)
(* header declares, so the interpreter, which passes over an opcode with   *)
(* an index outside its pool, executes them all; and it gives up nowhere   *)
(* in the code.                                                            *)
NothingSkipped ==
    phase = "image" /\ ~damaged =>
        \A off \in AllVisited(image) : off > 0 /\ LeafInPools(image, off)

(* How deep blocks nest once ELSIFs are blocks in an ELSE.                 *)
RECURSIVE Depth(_)
DepthOf(s) == LET elsif(k) == k + Depth(s.elsifs[k].body)
              IN  CASE s.k = "if"  -> 1 + FoldSet(LAMBDA a, d : IF a > d THEN a ELSE d, 0,
                                             {Depth(s.then), Len(s.elsifs) + Depth(s.els)}
                                               \cup {elsif(k) : k \in DOMAIN s.elsifs})
                    [] s.k = "for" -> 1 + Depth(s.body)
                    [] OTHER       -> 0
Depth(b) == FoldSet(LAMBDA a, d : IF a > d THEN a ELSE d, 0, {DepthOf(b[k]) : k \in DOMAIN b})

MaxDepth == 5
(* The validator loads what the compiler writes if and only if its blocks, *)
(* an ELSIF counting as one more level, nest at most five deep.            *)
LoadsIfShallow ==
    ~damaged => /\ phase = "loaded" => Depth(prog.body) <= MaxDepth
                /\ phase = "refused" => Depth(prog.body) > MaxDepth

(* The validator does not look into a block whose payload is empty; the    *)
(* interpreter takes the bytes that follow for its header.                 *)
EmptyBlock(off) == ByteAt(image, off) \in {IfTag, ForTag} /\ read_u16_le(image, off + 1) = 0

(* Whatever byte of an image is damaged, if the validator accepts it the   *)
(* interpreter reads it as the validator did: every list of statements     *)
(* ends where its length says, and no rest of one is dropped.              *)
AcceptedIsWhole ==
    phase = "loaded" =>
        LET seen == AllVisited(image)
        IN  (\E off \in seen : off < 0) => \E off \in seen : off > 0 /\ EmptyBlock(off)
=============================================================================
