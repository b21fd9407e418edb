----------------------------- MODULE ChezzMagic -----------------------------
(***************************************************************************)
(* How the Chezz engine comes by the attack tables of its sliding pieces   *)
(* (sliding_pieces/gen_sp_tables.c): a search for a magic number under     *)
(* which no two sets of blockers with different attacks share an entry,    *)
(* the temporary table filled with it, and exported as C source            *)
(* (bishop_magic.c, rook_magic.c).  The engine is compiled with that       *)
(* source, and its lookups (get_sp_attacks.c) read it.  The export is made *)
(* by hand and not by the engine; the .dat file of save_magic_tables and   *)
(* load_magic_tables, "used for testing", is left out.                     *)
(*                                                                         *)
(* The search for one square does not look at another's, so the model      *)
(* takes one square of one piece; the program loops over all of them.      *)
(* A magic number is known by the hash it gives: Index(magic, blockers,    *)
(* mask, bits), an arbitrary function into 0 .. 2^bits - 1.                *)
(***************************************************************************)
EXTENDS ChezzBoard, FiniteSetsExt

CONSTANTS Searched,      \* the <<piece, square>> pairs to search for
          Magics,        \* the numbers gen_random_magic may return
          Index(_, _, _, _),
          MaxAttempts,   \* 100000000 in the code
          MaxRetries     \* 10 in the code

ASSUME SearchAssumption ==
    /\ Searched \subseteq {"bishop", "rook"} \X Squares
    /\ MaxAttempts \in Nat /\ MaxRetries \in Nat \ {0}

VARIABLES job,      \* the piece and the square of this search
          pc,       \* where find_magic_number and its callers are
          attempt,  \* numbers tried in this search
          retry,    \* searches given up
          magic,    \* the number being tried
          config,   \* the next blocker configuration
          used,     \* the attacks stored at each index, {} for none
          magics,   \* the table of the square in bishop_magics_temp, rook_magics_temp
          compiled  \* its table in bishop_magics, rook_magics

vars == <<job, pc, attempt, retry, magic, config, used, magics, compiled>>

Slider == job[1]
Square == job[2]

-----------------------------------------------------------------------------
(* How many squares lie between a square and the nearest edge.             *)
Ring(s) == Min({RowOf(s), 7 - RowOf(s), ColOf(s), 7 - ColOf(s)})

(* Mutant of BISHOP_RELEVANT_BITS: the corners count like the edges.       *)
BISHOP_BITS_EVEN == [s \in Squares |-> <<5, 5, 7, 9>>[Ring(s) + 1]]

BISHOP_RELEVANT_BITS ==
    [s \in Squares |-> IF s \in {0, 7, 56, 63} THEN 6
                       ELSE <<5, 5, 7, 9>>[Ring(s) + 1]]

ROOK_RELEVANT_BITS ==
    [s \in Squares |-> 10 + Cardinality({x \in {"row", "col"} :
                           IF x = "row" THEN RowOf(s) \in {0, 7}
                           ELSE ColOf(s) \in {0, 7}})]

BitsOf(p) == IF p[1] = "bishop" THEN BISHOP_RELEVANT_BITS[p[2]]
             ELSE ROOK_RELEVANT_BITS[p[2]]
MaskOf(p) == IF p[1] = "bishop" THEN gen_bishop_mask(p[2]) ELSE gen_rook_mask(p[2])

(* The shift by 64 - bits leaves an index of that many bits.               *)
ASSUME HashAssumption ==
    \A p \in Searched : \A m \in Magics : \A blockers \in SUBSET MaskOf(p) :
        Index(m, blockers, MaskOf(p), BitsOf(p)) \in 0 .. 2 ^ BitsOf(p) - 1

relevant_bits == BitsOf(job)
relevant_mask == MaskOf(job)
num_blockers == 2 ^ relevant_bits
MAX_ATTACKS == IF Slider = "bishop" THEN 512 ELSE 4096

(* The bits of index spread over the num_bits lowest squares of a mask.    *)
gen_blocker_config(index, num_bits, m) ==
    LET place(s) == Cardinality({q \in m : q < s})
    IN {s \in m : place(s) < num_bits /\ (index \div 2 ^ place(s)) % 2 = 1}

Attacks(blockers) ==
    IF Slider = "bishop" THEN gen_bishop_attacks(Square, blockers)
    ELSE gen_rook_attacks(Square, blockers)

blocker == gen_blocker_config(config, relevant_bits, relevant_mask)

Entries == 0 .. num_blockers - 1
empty_table == [n \in Entries |-> {}]
no_magics == [mask |-> {}, bits |-> 0, number |-> "none", attack_table |-> <<>>]

TablesInit ==
    /\ job \in Searched
    /\ pc = "start" /\ attempt = 0 /\ retry = 0 /\ magic = "none" /\ config = 0
    /\ used = <<>> /\ magics = no_magics /\ compiled = no_magics

(* gen_magic_numbers comes to the square: find_magic_number allocates used. *)
StartSearch ==
    /\ pc = "start"
    /\ pc' = "pick" /\ used' = empty_table
    /\ UNCHANGED <<job, attempt, retry, magic, config, magics, compiled>>

(* Another random number; used is cleared for it.                          *)
PickMagic ==
    /\ pc = "pick" /\ attempt < MaxAttempts
    /\ \E m \in Magics : magic' = m
    /\ attempt' = attempt + 1
    /\ used' = empty_table /\ config' = 0 /\ pc' = "test"
    /\ UNCHANGED <<job, retry, magics, compiled>>

(* Out of attempts: the search returns 0 and is run again, a few times.    *)
GiveUp ==
    /\ pc = "pick" /\ attempt = MaxAttempts
    /\ retry' = retry + 1 /\ attempt' = 0
    /\ pc' = IF retry + 1 < MaxRetries THEN "pick" ELSE "exit"
    /\ UNCHANGED <<job, magic, config, used, magics, compiled>>

(* One blocker configuration: its attacks take a free entry, share one     *)
(* that holds the same attacks, or cost the number its place.              *)
TestConfig ==
    LET index == Index(magic, blocker, relevant_mask, relevant_bits)
    IN /\ pc = "test" /\ config < num_blockers
       /\ IF used[index] # {} /\ used[index] # Attacks(blocker)
          THEN pc' = "pick" /\ UNCHANGED <<used, config>>
          ELSE /\ used' = [used EXCEPT ![index] = Attacks(blocker)]
               /\ config' = config + 1 /\ pc' = pc
       /\ UNCHANGED <<job, attempt, retry, magic, magics, compiled>>

(* Mutant of KeepMagic: the last configuration is not tried.               *)
KeepMagicEarly ==
    /\ pc = "test" /\ config = num_blockers - 1
    /\ magics' = [mask |-> relevant_mask, bits |-> relevant_bits, number |-> magic,
                  attack_table |-> empty_table]
    /\ config' = 0 /\ pc' = "fill"
    /\ UNCHANGED <<job, attempt, retry, magic, used, compiled>>

(* The number is kept, and init_magic_tables begins: mask, bits, and an    *)
(* attack table still all zeros.                                           *)
KeepMagic ==
    /\ pc = "test" /\ config = num_blockers
    /\ magics' = [mask |-> relevant_mask, bits |-> relevant_bits, number |-> magic,
                  attack_table |-> empty_table]
    /\ config' = 0 /\ pc' = "fill"
    /\ UNCHANGED <<job, attempt, retry, magic, used, compiled>>

(* One entry of compute_magic_attack_tables.                               *)
FillEntry ==
    LET index == Index(magics.number, blocker, magics.mask, magics.bits)
    IN /\ pc = "fill" /\ config < 2 ^ magics.bits
       /\ magics' = [magics EXCEPT !.attack_table[index] = Attacks(blocker)]
       /\ config' = config + 1
       /\ UNCHANGED <<job, pc, attempt, retry, magic, used, compiled>>

(* export_magic_table, and the engine compiled with what it writes: number, *)
(* mask, entries and bits, as they are.                                    *)
ExportTable ==
    /\ pc = "fill" /\ config = 2 ^ magics.bits
    /\ compiled' = magics /\ pc' = "ready"
    /\ UNCHANGED <<job, attempt, retry, magic, config, used, magics>>

TablesNext == StartSearch \/ PickMagic \/ GiveUp \/ TestConfig \/ KeepMagic
        \/ FillEntry \/ ExportTable

TablesSpec == TablesInit /\ [][TablesNext]_vars

-----------------------------------------------------------------------------
(* bishop_attacks and rook_attacks: the entry the blockers within the mask *)
(* select.                                                                 *)
Lookup(blockers) ==
    compiled.attack_table[Index(compiled.number, blockers \cap compiled.mask,
                                compiled.mask, compiled.bits)]

(* The program enumerates every set of blockers of the mask, because the   *)
(* table of relevant bits, typed in by hand, has exactly as many as the    *)
(* mask has squares; and the entries fit the arrays of sp.h.               *)
EnumeratesBlockers ==
    pc = "start" =>
    /\ {gen_blocker_config(n, relevant_bits, relevant_mask) : n \in Entries} = SUBSET relevant_mask
    /\ num_blockers <= MAX_ATTACKS

(* Whatever number the search kept, collisions included: what a lookup in  *)
(* the exported table finds is the walk to the first blocker in each       *)
(* direction, for the blockers on the whole board, of which the index sees *)
(* only those within the mask.                                             *)
Outside == {{}, Squares, {q \in Squares : RowOf(q) \in {0, 7} \/ ColOf(q) \in {0, 7}}}

LookupsAreWalks ==
    pc = "ready" =>
        \A inside \in SUBSET relevant_mask : \A beyond \in Outside :
            LET blockers == inside \cup ((beyond \ relevant_mask) \ {Square})
            IN Lookup(blockers) = Attacks(blockers)
=============================================================================
