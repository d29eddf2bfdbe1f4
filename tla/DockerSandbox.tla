---------------------------- MODULE DockerSandbox ----------------------------
(***************************************************************************)
(* The life of the arena container: sandbox/docker.DockerSandbox inside    *)
(* sandbox/base.sandbox_session.  A container is known by its name, which  *)
(* is made of the id of its run; the daemon's answers are the environment's. *)
(***************************************************************************)
EXTENDS FiniteSets

CONSTANTS Runs, NoRun

ASSUME SandboxAssumption == NoRun \notin Runs

VARIABLES containers,  \* the containers the daemon has, by name
          handle,      \* self._container of the session in progress
          abandoned    \* history: runs whose start or removal went wrong

sandboxVars == <<containers, handle, abandoned>>

SandboxInit == containers = {} /\ handle = NoRun /\ abandoned = {}

\* _remove_stale_namesake: the removal of a namesake may fail, which is ignored.
Namesakes(r) == {{}, containers \cap {r}}

\* A run asks for its container: no daemon, no image, or containers.run raises
\* before it has created one.
StartRefused(r) ==
    /\ \E removed \in Namesakes(r) : containers' = containers \ removed
    /\ UNCHANGED <<handle, abandoned>>

\* containers.run makes the container unless one of its name is left.
StartContainer(r) ==
    \E removed \in Namesakes(r) :
        /\ r \notin containers \ removed
        /\ containers' = (containers \ removed) \cup {r}
        /\ handle' = r
        /\ UNCHANGED abandoned

\* containers.run creates the container and then starts it.  The start raises,
\* which leaves start() with no handle of what was created; or it runs, and the
\* workdir setup or _verify_non_root raises.  start() is outside the session's
\* try, so nothing stops or removes the container.
StartFailsHalfway(r) ==
    \E removed \in Namesakes(r) :
        /\ r \notin containers \ removed
        /\ containers' = (containers \ removed) \cup {r}
        /\ handle' = NoRun
        /\ abandoned' = abandoned \cup {r}

\* Mutant: stop() forgets the container without removing it.
StopForgets ==
    /\ handle \in Runs
    /\ handle' = NoRun
    /\ UNCHANGED <<containers, abandoned>>

\* stop(): the handle is dropped whether or not the container goes.
StopRemoves ==
    /\ handle \in Runs
    /\ containers' = containers \ {handle}
    /\ handle' = NoRun
    /\ UNCHANGED abandoned

StopFails ==
    /\ handle \in Runs
    /\ handle' = NoRun
    /\ abandoned' = abandoned \cup {handle}
    /\ UNCHANGED containers

SandboxTypeOK ==
    /\ containers \subseteq Runs /\ abandoned \subseteq Runs
    /\ handle \in Runs \cup {NoRun}

\* However its run ends, no container outlives its session, unless its start or
\* the checks behind it failed, the daemon would not remove it, or the process
\* was killed: those are never cleaned up, for the namesake a later run looks for
\* has another id.
NoContainerOutlives == containers \ abandoned = {handle} \ {NoRun}
=============================================================================
