------------------------------ MODULE KeySplit ------------------------------
(***************************************************************************)
(* What a split key is made of (crypto/splitter.py, reconstruction.py) and *)
(* how lock and unlock use it (pass 1 of lock.py and of unlock.py): one    *)
(* row of shards, shared by every .env line whose key has its alias.  Two  *)
(* different keys may have one alias (_make_alias keeps 8 hex digits).     *)
(*                                                                         *)
(* A value is a prefix, which the split leaves alone, and a body, which it *)
(* masks character by character over an alphabet.  The commitment (an HMAC *)
(* under the row's nonce) stands for the value it was made from.  KeyStores*)
(* builds on what is shown here: the lines of an alias hold one shard-A,   *)
(* and it opens with the row it was split into and with no other.          *)
(***************************************************************************)
EXTENDS Integers, Sequences, FiniteSets

CONSTANTS
    Char,
    Prefix,
    Charsets,       \* the alphabets in the order they are tried
    ApiKey,         \* keys with one alias
    Line,           \* .env lines
    Missing,
    MaxDamage       \* bound: corruptions of lines and of the row

ToIdx(cs, c) == (CHOOSE i \in DOMAIN cs : cs[i] = c) - 1        \* _CHAR_TO_IDX

Text == [prefix : Prefix, body : Seq(Char)]

Shards ==
    [shard_b : Seq(Char), commitment : ApiKey, prefix : Prefix,
     charset : {Charsets[i] : i \in DOMAIN Charsets}]

ASSUME SplitAssumption ==
    /\ Charsets \in Seq(Seq(Char))
    /\ \A i \in DOMAIN Charsets :
            /\ Charsets[i] # << >>
            /\ \A j, m \in DOMAIN Charsets[i] :
                    Charsets[i][j] = Charsets[i][m] => j = m
    /\ \A k \in ApiKey :
            /\ k.prefix \in Prefix
            /\ k.body \in Seq(Char)
            /\ k.body # << >>
            /\ k = [prefix |-> k.prefix, body |-> k.body]
    /\ Missing \notin ApiKey \cup Shards
    /\ MaxDamage \in Nat

VARIABLES
    row,            \* the alias's row in shards, or Missing
    held,           \* what each line holds
    enlisted,       \* the lines with an enrollment
    given,          \* the key the user has put on each line (history)
    damage

splitVars == <<row, held, enlisted, given, damage>>

-----------------------------------------------------------------------------
(* splitter.py and reconstruction.py.                                      *)

Covers(cs, body) == \A i \in DOMAIN body : \E j \in DOMAIN cs : cs[j] = body[i]

\* _detect_charset: the first alphabet that covers the body.
DetectCharset(i, body) ==
    /\ Covers(Charsets[i], body)
    /\ \A j \in 1..(i - 1) : ~Covers(Charsets[j], body)

Minus(cs, x, y) ==
    [i \in DOMAIN x |-> cs[((ToIdx(cs, x[i]) - ToIdx(cs, y[i])) % Len(cs)) + 1]]

Plus(cs, x, y) ==
    [i \in DOMAIN x |-> cs[((ToIdx(cs, x[i]) + ToIdx(cs, y[i])) % Len(cs)) + 1]]

\* _verify_commitment
Committed(k, r) == k = r.commitment

\* What the two shards add up to.
Sum(a, r) == [prefix |-> r.prefix, body |-> Plus(r.charset, a.body, r.shard_b)]

\* The checks reconstruct_key_fp makes before it adds, and a character outside
\* the alphabet, which is a KeyError.
Pairs(a, r) ==
    /\ a.prefix = r.prefix
    /\ DOMAIN a.body = DOMAIN r.shard_b
    /\ Covers(r.charset, a.body)
    /\ Covers(r.charset, r.shard_b)

\* Mutant: the sum is not checked against the commitment.
ReconstructsUnverified(a, r) == Pairs(a, r)

\* reconstruct_key_fp: it returns Sum(a, r) or raises.
SumReconstructs(a, r) == Pairs(a, r) /\ Committed(Sum(a, r), r)

\* split_key_fp with the mask it drew.
SplitInto(k, cs, mask) ==
    [shard_b |-> mask, commitment |-> k, prefix |-> k.prefix, charset |-> cs]

\* The shard-A that split_key_fp returns, and that derive_shard_a_fp recreates.
DeriveShardA(k, r) ==
    [prefix |-> r.prefix, body |-> Minus(r.charset, k.body, r.shard_b)]

-----------------------------------------------------------------------------
(* lock, unlock, and what happens to the files and the database.           *)

Masks(cs, body) == [DOMAIN body -> {cs[i] : i \in DOMAIN cs}]

SplitInit ==
    /\ row = Missing
    /\ held = [l \in Line |-> Missing]
    /\ enlisted = {}
    /\ given = [l \in Line |-> Missing]
    /\ damage = 0

PutKeyOn(l, k) ==
    /\ held' = [held EXCEPT ![l] = k]
    /\ given' = [given EXCEPT ![l] = k]
    /\ UNCHANGED <<row, enlisted, damage>>

\* The line holds a key that no lock has split: not an enrolled shard-A.
Raw(l) ==
    /\ held[l] # Missing
    /\ held[l] = given[l]
    /\ ~(l \in enlisted /\ row # Missing /\ SumReconstructs(held[l], row))

\* _pass1_db_writes, fresh branch.  A random pad that turns the key into a key
\* of the user's is left out: of 64^n pads, it is one for each key.
LockFresh(l) ==
    /\ row = Missing
    /\ Raw(l)
    /\ \E i \in DOMAIN Charsets :
            /\ DetectCharset(i, held[l].body)
            /\ \E mask \in Masks(Charsets[i], held[l].body) :
                    row' = SplitInto(held[l], Charsets[i], mask)
    /\ DeriveShardA(held[l], row') \notin ApiKey
    /\ held' = [held EXCEPT ![l] = DeriveShardA(held[l], row')]
    /\ enlisted' = enlisted \cup {l}
    /\ UNCHANGED <<given, damage>>

\* Mutant: the alias is taken for the key.
MatchesRowByAlias(k, r) ==
    /\ DOMAIN k.body = DOMAIN r.shard_b
    /\ Covers(r.charset, k.body)
    /\ Covers(r.charset, r.shard_b)

\* derive_shard_a_fp's checks come after the commitment's.
MatchesRow(k, r) ==
    /\ Committed(k, r)
    /\ k.prefix = r.prefix
    /\ DOMAIN k.body = DOMAIN r.shard_b
    /\ Covers(r.charset, k.body)
    /\ Covers(r.charset, r.shard_b)

\* _pass1_db_writes, re-lock branch: the row stays as it is.
LockAgain(l) ==
    /\ row # Missing
    /\ Raw(l)
    /\ MatchesRow(held[l], row)
    /\ held' = [held EXCEPT ![l] = DeriveShardA(@, row)]
    /\ enlisted' = enlisted \cup {l}
    /\ UNCHANGED <<row, given, damage>>

\* _pass1_reconstruct, then the line and the row: the row goes with its last
\* enrollment.
UnlockLine(l) ==
    /\ l \in enlisted
    /\ row # Missing
    /\ held[l] # Missing
    /\ SumReconstructs(held[l], row)
    /\ held' = [held EXCEPT ![l] = Sum(@, row)]
    /\ enlisted' = enlisted \ {l}
    /\ row' = IF enlisted' = {} THEN Missing ELSE row
    /\ UNCHANGED <<given, damage>>

Damage ==
    /\ damage < MaxDamage
    /\ damage' = damage + 1
    /\ UNCHANGED <<enlisted, given>>

\* A character of a locked line is altered, or another line is pasted over it.
DamageLine(l) ==
    /\ l \in enlisted
    /\ Damage
    /\ \/ \E i \in DOMAIN held[l].body, c \in Char :
            held' = [held EXCEPT ![l].body[i] = c]
       \/ \E m \in Line : held[m] # Missing /\ held' = [held EXCEPT ![l] = held[m]]
    /\ UNCHANGED row

\* The row is corrupted or swapped ("Defense-in-depth", derive_shard_a_fp).
DamageRow ==
    /\ row # Missing
    /\ Damage
    /\ \/ \E i \in DOMAIN row.shard_b, c \in Char :
            row' = [row EXCEPT !.shard_b[i] = c]
       \/ \E p \in Prefix : row' = [row EXCEPT !.prefix = p]
       \/ \E i \in DOMAIN Charsets : row' = [row EXCEPT !.charset = Charsets[i]]
    /\ UNCHANGED held

SplitNext ==
    \/ \E l \in Line, k \in ApiKey : PutKeyOn(l, k)
    \/ \E l \in Line :
            \/ LockFresh(l)
            \/ LockAgain(l)
            \/ UnlockLine(l)
            \/ DamageLine(l)
    \/ DamageRow

SplitSpec == SplitInit /\ [][SplitNext]_splitVars

-----------------------------------------------------------------------------
(* Properties.                                                             *)

SplitTypeOK ==
    /\ row \in Shards \cup {Missing}
    /\ held \in [Line -> Text \cup {Missing}]
    /\ enlisted \subseteq Line
    /\ given \in [Line -> ApiKey \cup {Missing}]
    /\ damage \in 0..MaxDamage

\* While nothing was corrupted, a line holds the user's key itself or a
\* shard-A that the alias's row turns back into exactly that key, whatever
\* keys share the alias and however often its lines were locked and unlocked.
OpensToItsKey ==
    damage = 0 =>
        \A l \in Line :
            \/ held[l] = given[l]
            \/ /\ l \in enlisted
               /\ row # Missing
               /\ SumReconstructs(held[l], row)
               /\ Sum(held[l], row) = given[l]

\* Whatever was corrupted, in the file or in the row: unlock writes a key of
\* the user's, or refuses; it never leaves a value that was never a key.
NeverAnotherKey ==
    [][\A l \in enlisted \ enlisted' : held'[l] \in ApiKey]_splitVars
=============================================================================
