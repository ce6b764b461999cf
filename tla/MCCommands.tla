----------------------------- MODULE MCCommands -----------------------------
(***************************************************************************)
(* Ten parts of the commands that change keys.  ExclusiveLock shows that   *)
(* the commands that write the stores take turns, which is why KeyStores,  *)
(* LockInterrupts, EnvLines and OpenClaw have one command at a time;       *)
(* SafeRewrite is the write of the .env they count on, FernetKey the key   *)
(* they seal under, KeySplit why a shard-A opens with its row and no       *)
(* other, Migrations the tables they find.                                 *)
(* The parts share no state and are checked side by side: a behaviour is   *)
(* one of part, whose variables alone move, so the state spaces add up.    *)
(***************************************************************************)
EXTENDS KeyStores, LockInterrupts, BindProbe, SafeRewrite, ExclusiveLock,
        FernetKey, OpenClaw, KeySplit, Migrations, MCEnvLines, TLC

CONSTANTS k1, k2, f1, f2, v1, v2, s1, p1

OneSlot == [v \in Var |-> s1]
FirstCanonical == {v1}
AllSteps == Steps
SharedProvider == [k \in OcKey |-> p1]

TwoAlphabets == <<<<"a", "b">>, <<"a", "b", "c">>>>
TwoKeys == {[prefix |-> "sk-", body |-> <<"a", "b">>], [prefix |-> "sk-", body |-> <<"b", "c">>]}

Symmetric == Permutations(Secret) \cup Permutations(Env)

VARIABLE part

PartNames == {"split", "stores", "interrupts", "probe", "rewrite", "exclusive", "fernet", "openclaw",
          "lines", "migrations"}

CommandsTypeOK ==
    /\ part \in PartNames
    /\ part = "stores" => TypeOK
    /\ part = "interrupts" => LockTypeOK
    /\ part = "probe" => ProbeTypeOK
    /\ part = "rewrite" => RewriteTypeOK
    /\ part = "exclusive" => ExclusiveTypeOK
    /\ part = "fernet" => FernetTypeOK
    /\ part = "openclaw" => OcTypeOK
    /\ part = "split" => SplitTypeOK
    /\ part = "lines" => LinesTypeOK
    /\ part = "migrations" => MigrationsTypeOK

storesVars == <<files, rows, command, user, bounds>>
commandsVars == <<part, storesVars, lockVars, probeVars, rewriteVars, exclusiveVars,
                  fernetVars, ocVars, splitVars, lineVars, migrationVars>>

\* The parts that do not run stay in one initial state.
CommandsInit ==
    /\ part \in PartNames
    /\ Init
    /\ LockInit /\ (part # "interrupts" => present)
    /\ ProbeInit /\ (part # "probe" => listener = "proxy")
    /\ RewriteInit
    /\ ExclusiveInit
    /\ part # "exclusive" => \A c, d \in Command : on[c] = on[d]
    /\ part # "exclusive" => on[CHOOSE c \in Command : TRUE] = CHOOSE h \in Host : TRUE
    /\ FernetInit /\ (part # "fernet" => keyring /\ sealed = {})
    /\ OcInit /\ (part # "openclaw" => layout = "present")
    /\ SplitInit
    /\ LinesInit /\ (part # "lines" => envFile = <<KeyLine("K1")>>)
    /\ MigrationsInit /\ (part # "migrations" => tables = {})

CommandsNext ==
    /\ part' = part
    /\ \/ /\ part = "stores" /\ Next
          /\ UNCHANGED <<lockVars, probeVars, rewriteVars, exclusiveVars, fernetVars,
                         ocVars, splitVars, lineVars, migrationVars>>
       \/ /\ part = "interrupts" /\ LockNext
          /\ UNCHANGED <<storesVars, probeVars, rewriteVars, exclusiveVars, fernetVars,
                         ocVars, splitVars, lineVars, migrationVars>>
       \/ /\ part = "probe" /\ ProbeNext
          /\ UNCHANGED <<storesVars, lockVars, rewriteVars, exclusiveVars, fernetVars,
                         ocVars, splitVars, lineVars, migrationVars>>
       \/ /\ part = "rewrite" /\ RewriteNext
          /\ UNCHANGED <<storesVars, lockVars, probeVars, exclusiveVars, fernetVars,
                         ocVars, splitVars, lineVars, migrationVars>>
       \/ /\ part = "exclusive" /\ ExclusiveNext
          /\ UNCHANGED <<storesVars, lockVars, probeVars, rewriteVars, fernetVars,
                         ocVars, splitVars, lineVars, migrationVars>>
       \/ /\ part = "fernet" /\ FernetNext
          /\ UNCHANGED <<storesVars, lockVars, probeVars, rewriteVars, exclusiveVars,
                         ocVars, splitVars, lineVars, migrationVars>>
       \/ /\ part = "openclaw" /\ OcNext
          /\ UNCHANGED <<storesVars, lockVars, probeVars, rewriteVars, exclusiveVars,
                         fernetVars, splitVars, lineVars, migrationVars>>
       \/ /\ part = "split" /\ SplitNext
          /\ UNCHANGED <<storesVars, lockVars, probeVars, rewriteVars, exclusiveVars,
                         fernetVars, ocVars, lineVars, migrationVars>>
       \/ /\ part = "lines" /\ LinesNext
          /\ UNCHANGED <<storesVars, lockVars, probeVars, rewriteVars, exclusiveVars,
                         fernetVars, ocVars, splitVars, migrationVars>>
       \/ /\ part = "migrations" /\ MigrationsNext
          /\ UNCHANGED <<storesVars, lockVars, probeVars, rewriteVars, exclusiveVars,
                         fernetVars, ocVars, splitVars, lineVars>>

CommandsSpec == CommandsInit /\ [][CommandsNext]_commandsVars
=============================================================================
