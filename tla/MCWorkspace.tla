---------------------------- MODULE MCWorkspace ----------------------------
(* Instances of Workspace for TLC.  A behaviour is of one of three scopes:  *)
(* one daemon with all requests and the reports of two Surfaces, one with a *)
(* smaller document and all reports, or daemons one after the other with a  *)
(* smaller document and no reports.                                         *)
EXTENDS Workspace

VARIABLE scope

Smaller ==
  /\ ws'.next \in {ws.next} \cup 1..MaxId
  /\ nextSurface' \in {nextSurface} \cup 1..MaxSurface

(* Only members of `some` report *)
Reporting(some) == \A u \in DOMAIN surfaces \ some : u \in DOMAIN surfaces' => surfaces'[u] = surfaces[u]

ScopeInit == Init /\ scope \in {"requests", "reports", "restarts"}
ScopeNext ==
  /\ UNCHANGED scope
  /\ \/ /\ Requests
        /\ CASE scope = "requests" -> Reporting({1, 2})
             [] scope = "reports"  -> Smaller
             [] scope = "restarts" -> Smaller /\ Reporting({})
     \/ scope = "restarts" /\ Storage

ScopeSpec == ScopeInit /\ [][ScopeNext]_<<vars, scope>>
=============================================================================
