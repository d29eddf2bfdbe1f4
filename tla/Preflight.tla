------------------------------ MODULE Preflight ------------------------------
(***************************************************************************)
(* What a run is made of before it exists: the options of cli/bench_cmd    *)
(* and cli/run_cmd with their precedence, and what execute_run settles     *)
(* before new_run, in its order.  Nothing is kept from one run to the next *)
(* (a category that loaded, apart): each meets the machine as it then is.  *)
(***************************************************************************)
EXTENDS Integers, Sequences, FiniteSets, FiniteSetsExt

CONSTANTS NotGiven, Malformed,
          DefaultMaxCost,
          Registry,      \* the models of providers/registry.py
          Retired,       \* those no default may choose
          NamedUtilities,  \* what --utility-model may name
          ApiKeyGiven    \* --api-key is on the command line

Policies == {"gated", "strict", "auto"}

ASSUME PreflightAssumption ==
    /\ NotGiven # Malformed /\ {NotGiven, Malformed} \cap Nat = {}
    /\ DefaultMaxCost \in Nat
    /\ Retired \subseteq Registry /\ ApiKeyGiven \in BOOLEAN

\* Exit codes; a traceback's is the code of a false flag.
Running == 0
Crashed == 1
NoSandbox == 4
Usage == 6

-----------------------------------------------------------------------------
(* Options: the flag, else the configuration file's value, else the default. *)

Given(flag, setting, default) ==
    IF flag # NotGiven THEN flag
    ELSE IF setting # NotGiven THEN setting ELSE default

\* 0 is a value.  A malformed setting is an error, unless the flag hides it.
ResolveMaxCost(flag, setting) == Given(flag, setting, DefaultMaxCost)
ResolveApproval(flag, setting) == Given(flag, setting, "gated")

\* cheapest_model_for: the cheapest of the same provider, unless one is named.
Utilities(m) ==
    LET candidates == {u \in Registry \ Retired : u.provider = m.provider}
    IN NamedUtilities \cup
       {u \in candidates : \A v \in candidates : u.in + u.out <= v.in + v.out}

-----------------------------------------------------------------------------
(* The machine *)

\* Another process may change it at any time.  A garbled keys file is one that
\* `keys set` is writing.
Machine(Providers) ==
    [challenge : BOOLEAN,   \* chal.toml reads as it did in load_suite
     category : {"shipped", "missing", "malformed"},
     dockerfile : BOOLEAN, daemon : BOOLEAN,
     image : {"none", "current", "stale", "foreign"},
     environment : SUBSET Providers, keyring : SUBSET Providers,
     keysFile : [keys : SUBSET Providers, garbled : BOOLEAN]]

\* challenge_from_file, categories.loader.load and registry.resolve.
ChallengeReads(machine) == machine.challenge
CategoryLoads(machine) == machine.category = "shipped"
Known(m) == m \in Registry

\* inspect() reads the Dockerfile for its fingerprint, then asks the daemon.
Inspectable(machine) == machine.dockerfile /\ machine.daemon

\* A stale image, or one of another architecture, is only warned about.
ArenaUsable(machine) == Inspectable(machine) /\ machine.image # "none"

\* resolve_key; the file is the last resort, and JSON errors are not handled.
ReadsKeysFile(machine, p, flag) ==
    ~flag /\ p \notin machine.environment \cup machine.keyring
HasKey(machine, p, flag) ==
    ReadsKeysFile(machine, p, flag) => p \in machine.keysFile.keys
KeyReadable(machine, p, flag) ==
    ReadsKeysFile(machine, p, flag) => ~machine.keysFile.garbled

Check(ok, code) == [ok |-> ok, code |-> code]

\* challenge_from_file, then execute_run up to new_run.  The utility model is
\* resolved outside any try, and --api-key is for the main model's provider.
Checks(machine, main, utility) ==
    LET shared == utility.provider = main.provider IN
    <<Check(ChallengeReads(machine), Crashed),
      Check(CategoryLoads(machine), Usage),
      Check(Known(main), Usage),
      Check(ArenaUsable(machine), NoSandbox),
      Check(KeyReadable(machine, main.provider, ApiKeyGiven), Crashed),
      Check(HasKey(machine, main.provider, ApiKeyGiven), Usage),
      Check(Known(utility), Crashed),
      Check(shared \/ KeyReadable(machine, utility.provider, FALSE), Crashed),
      Check(shared \/ HasKey(machine, utility.provider, FALSE), Usage)>>

\* The code of the first check that fails, or Running.
Preflight(machine, main, utility) ==
    LET checks == Checks(machine, main, utility)
        failed == {i \in DOMAIN checks : ~checks[i].ok}
    IN IF failed = {} THEN Running ELSE checks[Min(failed)].code
=============================================================================
