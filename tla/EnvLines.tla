------------------------------ MODULE EnvLines ------------------------------
(***************************************************************************)
(* The lines of one .env through lock and unlock                           *)
(* (cli/dotenv_rewriter.py with its callers in cli/commands/lock.py and    *)
(* unlock.py).                                                             *)
(*                                                                         *)
(* Two readers disagree about a file.  The rewriter splits it into logical *)
(* lines and edits those that set a name; python-dotenv, by which the      *)
(* application and the commands read, also takes a quoted 'NAME'=..., a    *)
(* bare NAME, lets the last line of a name win and expands ${NAME}.        *)
(*                                                                         *)
(* Lock saves what it overwrites on the line that routes a key; unlock     *)
(* puts it back, for all keys or for some.  Each command works on one      *)
(* snapshot, which SafeRewrite justifies: a file that changed is refused.  *)
(***************************************************************************)
EXTENDS Naturals, Sequences, FiniteSets, SequencesExt

CONSTANTS
    KeyVar,         \* names that hold a key
    UrlNameOf,      \* of each the *_BASE_URL line lock writes for it
    SharedUrlName,  \* the line the protocol's SDK reads whatever the key's name
    OtherName,      \* names of other variables
    FirstFiles      \* the files a user may start with

ASSUME LinesAssumption ==
    /\ KeyVar \cap OtherName = {}
    /\ SharedUrlName \in {UrlNameOf[v] : v \in KeyVar}
    /\ \A v \in KeyVar : UrlNameOf[v] \notin KeyVar \cup OtherName

UrlName == {UrlNameOf[v] : v \in KeyVar}
Name == KeyVar \cup UrlName \cup OtherName

\* What may be written in a place, as far as the commands tell it apart.
KeyText(v) == <<"key", v>>
ShardText(v) == <<"shard", v>>
ProxyUrl(v) == <<"proxy", v>>
Keyed(v) == <<"keyed", v>>          \* an address with the key in it
Url(u) == <<"url", u>>
VendorUrl == Url("vendor")          \* where the SDK would go by default
Awkward == <<"url", "awkward">>     \* fits only into quotes: a space before #
Empty == <<"none", "empty">>
Unset == <<"none", "unset">>        \* no line sets the name
NoValue == <<"none", "bare">>          \* a line NAME without a value

NoRef == ""
Literal(t) == [text |-> t, ref |-> NoRef]
RefTo(n) == [text |-> Empty, ref |-> n]   \* ${n}

\* shape: "set" NAME=value; "open" NAME="value with a quote that no later line
\* closes; "hidden" 'NAME'=value; "bare" NAME; "note" a comment.
TextLine(shape, name, value) == [shape |-> shape, name |-> name, value |-> value, aside |-> Empty]

VARIABLES
    envFile,        \* sequence of lines
    sealed_keys,    \* keys that are locked
    saved,          \* of each locked key the record on its enrollment
    upstream,       \* of each locked key shards.base_url
    found_file,     \* the file lock found (history)
    told            \* names whose value a note said is not restored (history)

lineVars == <<envFile, sealed_keys, saved, upstream, found_file, told>>

NoRecord == [kind |-> "none", value |-> Literal(Empty)]    \* an older version's row
KeptRecord(kind, value) == [kind |-> kind, value |-> value]
-----------------------------------------------------------------------------
(***************************************************************************)
(* python-dotenv: top down, the last line of a name wins, ${NAME} is what  *)
(* the lines above gave it.  A line it cannot parse is skipped alone.      *)
(***************************************************************************)
Expanded(value, env) ==
    IF value.ref = NoRef THEN value.text
    ELSE IF env[value.ref] \in {Unset, NoValue} THEN Empty
    ELSE env[value.ref]

ReadLine(env, line) ==
    CASE line.shape \in {"set", "hidden"} -> [env EXCEPT ![line.name] = Expanded(line.value, env)]
      [] line.shape = "bare" -> [env EXCEPT ![line.name] = NoValue]
      [] OTHER -> env

Reads(file) == FoldLeft(ReadLine, [n \in Name |-> Unset], file)
-----------------------------------------------------------------------------
\* The rewriter: the logical line of an open quote reaches to the end.
OpenAt(file) == {i \in DOMAIN file : file[i].shape = "open"}
Logical(file) == IF OpenAt(file) = {} THEN file
                 ELSE SubSeq(file, 1, CHOOSE i \in OpenAt(file) : \A j \in OpenAt(file) : i <= j)
Swallowed(file) == SubSeq(file, Len(Logical(file)) + 1, Len(file))

Sets(line) == line.shape \in {"set", "open"}
Assigned(file) == {l.name : l \in {m \in Range(Logical(file)) : Sets(m)}}
LastOf(file, n) == Logical(file)[CHOOSE i \in DOMAIN Logical(file) :
                        /\ Sets(Logical(file)[i]) /\ Logical(file)[i].name = n
                        /\ \A j \in DOMAIN Logical(file) :
                              Sets(Logical(file)[j]) /\ Logical(file)[j].name = n => j <= i]

IsWritable(value) == value.text # Awkward

RawValueOfAnyLine(file, n) ==
    {l.value : l \in {l \in Range(Logical(file)) : /\ l.shape = "set" /\ l.name = n
                                                /\ IsWritable(l.value)}}

\* EnvSnapshot.raw: the value as written, where it can be written back.
RawValue(file, n) == IF n \in Assigned(file) /\ LastOf(file, n).shape = "set"
                   /\ IsWritable(LastOf(file, n).value)
                THEN {LastOf(file, n).value} ELSE {}

\* EnvSnapshot.refs and names_reached.
RefsOf(file, n) ==
    IF n \notin Assigned(file) THEN {}
    ELSE LET line == LastOf(file, n)
             all == IF line.shape = "open" THEN Range(Swallowed(file)) \cup {line} ELSE {line}
         IN  {l.value.ref : l \in all} \ {NoRef}

NamesReached(file, value) ==
    LET within[k \in 0..Cardinality(Name)] ==
            IF k = 0 THEN {value.ref} \ {NoRef}
            ELSE within[k - 1] \cup UNION {RefsOf(file, n) : n \in within[k - 1]}
    IN  within[Cardinality(Name)]

Holds(text, v) == text \in {KeyText(v), Keyed(v)}
HeldBy(line, v) == Holds(line.value.text, v) \/ Holds(line.aside, v)

CopiesLeftOnLines(file, v, replaced) ==
    \E l \in Range(Logical(file)) : l.name \notin replaced /\ l.shape = "set" /\ HeldBy(l, v)

(***************************************************************************)
(* copies_left_behind, before anything is written, and must_remove, on the *)
(* bytes to be written: the key's text outside the values that are         *)
(* replaced.                                                               *)
(***************************************************************************)
CopiesLeft(file, v, replaced) ==
    \/ \E l \in Range(Logical(file)) :
          IF Sets(l) /\ l.name \in replaced THEN Holds(l.aside, v) ELSE HeldBy(l, v)
    \/ /\ \A l \in Range(Logical(file)) : l.shape = "open" => l.name \notin replaced
       /\ \E l \in Range(Swallowed(file)) : HeldBy(l, v)

(***************************************************************************)
(* rewrite_env_keys: every line of a name in updates gets the new value,   *)
(* the lines of removals go, the additions come last.                      *)
(***************************************************************************)
Updated(line, updates) ==
    IF Sets(line) /\ line.name \in DOMAIN updates
    THEN [line EXCEPT !.shape = "set", !.value = updates[line.name]] ELSE line

Rewritten(file, updates, removals, additions) ==
    LET kept(l) == ~(Sets(l) /\ l.name \in removals)
        touched == DOMAIN updates \cup removals
        lost == \E l \in Range(Logical(file)) : l.shape = "open" /\ l.name \in touched
        lines == SelectSeq(Logical(file), kept)
    IN  [i \in DOMAIN lines |-> Updated(lines[i], updates)]
        \o (IF lost THEN <<>> ELSE Swallowed(file))
        \o additions
-----------------------------------------------------------------------------
(***************************************************************************)
(* lock, without --keys-only.  It takes the names python-dotenv reads a    *)
(* key from.  It refuses, changing nothing, a file that is already locked, *)
(* that keeps a copy of a key elsewhere, that names an upstream nobody     *)
(* registered, or whose key the rewriter cannot find (KeyError).           *)
(***************************************************************************)
LineRecord(file, slot, slots, taken) ==
    LET raw == {r \in RawValue(file, slot) : NamesReached(file, r) \cap (slots \ {slot}) = {}}
        read == Reads(file)[slot]
        value == IF raw # {} THEN CHOOSE r \in raw : TRUE
                 ELSE Literal(IF read \in {Unset, NoValue} THEN Empty ELSE read)
    IN  IF (\E v \in taken : Holds(value.text, v)) \/ ~IsWritable(value)
        THEN KeptRecord("unsaved", Literal(Empty))
        ELSE KeptRecord("saved", value)

\* Any address may be registered, and only a registered one is accepted.
Registered(text) == text[1] \in {"url", "keyed"}
NoAddress(text) == text \in {Unset, NoValue, Empty}

UpstreamOf(v, reads) ==
    IF NoAddress(reads[UrlNameOf[v]]) THEN VendorUrl ELSE reads[UrlNameOf[v]]

LockLines(records) ==
    LET reads == Reads(envFile)
        taken == {v \in KeyVar : reads[v] = KeyText(v)}
        slots == {UrlNameOf[v] : v \in taken}
        existing == slots \cap Assigned(envFile)
        proxy(n) == Literal(ProxyUrl(CHOOSE v \in taken : UrlNameOf[v] = n))
        updates == [n \in taken \cup existing |->
                        IF n \in taken THEN Literal(ShardText(n)) ELSE proxy(n)]
        added == SetToSeq(slots \ existing)
    IN  /\ sealed_keys = {} /\ taken # {} /\ taken \subseteq Assigned(envFile)
        /\ \A n \in UrlName : reads[n][1] # "proxy"
        /\ \A n \in slots : Registered(reads[n]) \/ NoAddress(reads[n])
        /\ \A v \in taken : ~CopiesLeft(envFile, v, taken \cup slots)
        /\ envFile' = Rewritten(envFile, updates, {},
                                [i \in DOMAIN added |-> TextLine("set", added[i], proxy(added[i]))])
        /\ sealed_keys' = taken
        /\ saved' = [v \in KeyVar |->
                        IF v \notin taken \/ ~records THEN NoRecord
                        ELSE IF UrlNameOf[v] \in existing
                             THEN LineRecord(envFile, UrlNameOf[v], slots, taken)
                        ELSE KeptRecord("added", Literal(Empty))]
        /\ upstream' = [v \in KeyVar |-> IF v \in taken THEN UpstreamOf(v, reads) ELSE VendorUrl]
        /\ found_file' = envFile
        /\ told' = {}
-----------------------------------------------------------------------------
(***************************************************************************)
(* unlock of some keys.  A line is touched while it routes the key's own   *)
(* alias, judged as written.  Without a usable record the upstream of the  *)
(* key goes back, where it fits the line, and the user is told.            *)
(***************************************************************************)
ReadBy(v) == {UrlNameOf[v], SharedUrlName}

LinesOtherKeysRead(v, reads) ==
    UNION {ReadBy(w) : w \in {w \in KeyVar \ {v} : reads[w] \in {KeyText(w), ShardText(w)}}}

\* The vendor's own address is left out: a line removed costs nothing.
FitsLine(n, url, others) == n \notin others /\ url # VendorUrl /\ url # Awkward

Routes(v, n) == \E r \in RawValue(envFile, n) : r.text = ProxyUrl(v)
HasRecord(v, n) == n = UrlNameOf[v] /\ saved[v].kind # "none"
PutsBackRecord(v, n) == HasRecord(v, n) /\ saved[v].kind = "saved"
PutsBackUpstream(v, n) ==
    ~HasRecord(v, n) /\ FitsLine(n, upstream[v], LinesOtherKeysRead(v, Reads(envFile)))

UnlockLines(some) ==
    LET routed == {n \in UrlName : \E v \in some : n \in ReadBy(v) /\ Routes(v, n)}
        owner(n) == CHOOSE v \in some : Routes(v, n)
        back == {n \in routed : PutsBackRecord(owner(n), n) \/ PutsBackUpstream(owner(n), n)}
        value(n) == IF PutsBackRecord(owner(n), n) THEN saved[owner(n)].value
                    ELSE Literal(upstream[owner(n)])
        updates == [n \in some \cup back |-> IF n \in some THEN Literal(KeyText(n)) ELSE value(n)]
    IN  /\ some # {} /\ some \subseteq sealed_keys
        /\ \A v \in some : Reads(envFile)[v] = ShardText(v)
        /\ some \subseteq Assigned(envFile)
        /\ envFile' = Rewritten(envFile, updates, routed \ back, <<>>)
        /\ sealed_keys' = sealed_keys \ some
        /\ told' = told \cup {n \in routed : ~HasRecord(owner(n), n) \/ saved[owner(n)].kind = "unsaved"}
        /\ UNCHANGED <<saved, upstream, found_file>>
-----------------------------------------------------------------------------
LinesInit ==
    /\ envFile \in FirstFiles
    /\ sealed_keys = {}
    /\ saved = [v \in KeyVar |-> NoRecord]
    /\ upstream = [v \in KeyVar |-> VendorUrl]
    /\ found_file = envFile
    /\ told = {}

LinesNext ==
    \/ \E records \in BOOLEAN : LockLines(records)
    \/ \E some \in SUBSET KeyVar : UnlockLines(some)

LinesSpec == LinesInit /\ [][LinesNext]_lineVars
-----------------------------------------------------------------------------
LinesTypeOK ==
    /\ \A l \in Range(envFile) : /\ l.shape \in {"set", "open", "hidden", "bare", "note"}
                                 /\ l.value.ref \in Name \cup {NoRef}
    /\ sealed_keys \subseteq KeyVar
    /\ \A v \in KeyVar : /\ saved[v].kind \in {"none", "saved", "unsaved", "added"}
                         /\ IsWritable(saved[v].value)
                         /\ Registered(upstream[v])
    /\ told \subseteq UrlName

(***************************************************************************)
(* "never 'protected' with a readable copy of a key left in the file": of  *)
(* a locked key no text is left, in the file or in a record.  (A key that  *)
(* is part of a registered address lock keeps in shards.base_url, and an   *)
(* unlock of another key without a record may put it back.)                *)
(***************************************************************************)
SealedAway ==
    \A v \in sealed_keys :
        /\ \A w \in KeyVar : ~Holds(saved[w].value.text, v)
        /\ \/ \A l \in Range(envFile) : ~HeldBy(l, v)
           \/ \E w \in KeyVar \ sealed_keys : Holds(upstream[w], v)

\* The names a reader of the file goes through for n, by any line of it.
Behind(file, n) ==
    LET refs(m) == {l.value.ref : l \in {l \in Range(file) : l.name = m}} \ {NoRef}
        within[k \in 0..Cardinality(Name)] ==
            IF k = 0 THEN refs(n) ELSE within[k - 1] \cup UNION {refs(m) : m \in within[k - 1]}
    IN  within[Cardinality(Name)]

\* Names the two readers may take from different lines.
Unclear(file, n) ==
    LET lines == {i \in DOMAIN file : file[i].name = n}
    IN  Cardinality(lines) > 1 \/ \E i \in lines : file[i].shape = "hidden"

(***************************************************************************)
(* Locking and unlocking, whole or key by key, is invisible: when no key   *)
(* is locked any more, every name reads as before, except those the user   *)
(* was told about and what refers to them.  A name that is read through    *)
(* one of several lines of a name is not promised.                         *)
(***************************************************************************)
ReadsComeBack ==
    LET was == Reads(found_file)
        is == Reads(envFile)
    IN  sealed_keys = {} /\ envFile # found_file => \A n \in Name :
            \/ is[n] = was[n]
            \/ NoAddress(is[n]) /\ NoAddress(was[n])
            \/ n \in told
            \/ \E m \in Behind(found_file, n) : m \in told \/ Unclear(found_file, m)

(***************************************************************************)
(* A key that is back in the file is not sent to the proxy, neither its    *)
(* own line nor one that refers to the line of a key that is still locked. *)
(***************************************************************************)
NoRealKeyToProxy ==
    LET is == Reads(envFile)
    IN  \A v \in KeyVar : is[v] = KeyText(v) =>
            \/ is[UrlNameOf[v]][1] # "proxy"
            \/ \E m \in Behind(found_file, UrlNameOf[v]) : Unclear(found_file, m)

(***************************************************************************)
(* The real key of a name is never where it may leak: not in the file      *)
(* while it is locked, not on its way to the proxy once it is not.         *)
(***************************************************************************)
KeysStayPrivate == SealedAway /\ NoRealKeyToProxy

(***************************************************************************)
(* "the line is blank, a comment, or unparsable (and must be preserved     *)
(* verbatim)", and lines of names no command writes: every step keeps      *)
(* them, in their order.                                                   *)
(***************************************************************************)
OthersLines(file) == SelectSeq(file, LAMBDA l : l.name \notin KeyVar \cup UrlName)

OthersPreserved == [][OthersLines(envFile') = OthersLines(envFile)]_lineVars
=============================================================================
