--------------------------- MODULE UpdateProtocol ---------------------------
(***************************************************************************)
(* What a campaign promises, without threads, manifests or messages: the   *)
(* device of each package goes from version to version, one requested      *)
(* version at a time, and only while that version is being installed; a    *)
(* campaign is confirmed as successful only with the wanted version on the *)
(* device; rollback goes through a list of versions and ends with it.      *)
(***************************************************************************)
EXTENDS Naturals, Sequences

CONSTANTS Versions, Pkgs, Targets, InitialVersion, None,
          RollbackVersions   \* versions to fall back to, in this order, or None

VARIABLES phase,   \* of the campaign: idle, prepare, ready, confirm or abandon
          want,    \* the version to be installed
          order,   \* position of want among the rollback versions, 0 for a new version
          device   \* the version on the device

protocolVars == <<phase, want, order, device>>

Rollbacks == IF RollbackVersions = None THEN <<>> ELSE RollbackVersions

ProtocolInit ==
  /\ phase = [p \in Pkgs |-> "idle"]
  /\ want = [p \in Pkgs |-> InitialVersion]
  /\ order = [p \in Pkgs |-> 0]
  /\ device = [p \in Pkgs |-> InitialVersion]

Move(p, from, to) == phase[p] = from /\ phase' = [phase EXCEPT ![p] = to]

Start(p, v) ==
  /\ Move(p, "idle", "prepare")
  /\ v \in Targets \ {device[p]}
  /\ want' = [want EXCEPT ![p] = v]
  /\ order' = [order EXCEPT ![p] = 0]
  /\ UNCHANGED device

Prepared(p) == Move(p, "prepare", "ready") /\ UNCHANGED <<want, order, device>>

NotPrepared(p) == Move(p, "prepare", "idle") /\ UNCHANGED <<want, order, device>>

Install(p) ==
  /\ phase[p] = "ready"
  /\ device' = [device EXCEPT ![p] = want[p]]
  /\ UNCHANGED <<phase, want, order>>

\* The next version of the list takes the place of the one that failed.
Rollback(p) ==
  /\ \E to \in {"prepare", "ready"} : Move(p, "ready", to)
  /\ device[p] # want[p]
  /\ order[p] < Len(Rollbacks)
  /\ order' = [order EXCEPT ![p] = @ + 1]
  /\ want' = [want EXCEPT ![p] = Rollbacks[order[p] + 1]]
  /\ UNCHANGED device

Succeed(p) ==
  /\ Move(p, "ready", "confirm")
  /\ device[p] = want[p]
  /\ UNCHANGED <<want, order, device>>

\* A new version is abandoned, or there is no rollback version left.  A rollback may be
\* reported as failed although the device has its version: the package is looked up first.
Fail(p) ==
  /\ \/ Move(p, "ready", "idle")
     \/ order[p] = 0 /\ Move(p, "ready", "abandon")
  /\ order[p] = 0 => device[p] # want[p]
  /\ UNCHANGED <<want, order, device>>

Finish(p) ==
  /\ \E from \in {"confirm", "abandon"} : Move(p, from, "idle")
  /\ UNCHANGED <<want, order, device>>

ProtocolNext ==
  \E p \in Pkgs :
    \/ \E v \in Versions : Start(p, v)
    \/ Prepared(p) \/ NotPrepared(p) \/ Install(p) \/ Rollback(p)
    \/ Succeed(p) \/ Fail(p) \/ Finish(p)

ProtocolSpec == ProtocolInit /\ [][ProtocolNext]_protocolVars
=============================================================================
