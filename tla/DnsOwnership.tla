----------------------------- MODULE DnsOwnership -----------------------------
(***************************************************************************)
(* What NurProxy promises about the DNS zones it is given access to.        *)
(*                                                                          *)
(* A zone is shared: the operator edits it at the provider's own dashboard, *)
(* NurProxy edits it through the provider's API.  The promise is about the  *)
(* BASIS on which NurProxy touches a record:                                *)
(*   "none"      NurProxy has never had anything to do with the record;     *)
(*   "created"   NurProxy created it;                                       *)
(*   "adopted"   it was already there, and identical to the record NurProxy *)
(*               would have created;                                        *)
(*   "takeover"  an admin ordered NurProxy to take it over.                 *)
(* Only a record that NurProxy created, or was told to take over, is ever   *)
(* deleted by NurProxy; a record with no basis is not even edited.          *)
(* DomainDns implements this specification.                                 *)
(***************************************************************************)
EXTENDS DnsZone

-----------------------------------------------------------------------------
(* The operator owns the zone and may do anything to it. *)

OperatorWrites(r) ==
    /\ zone[r].fate \in {"unborn", "live"}
    /\ \E h \in Hosts, c \in Agents \cup {Elsewhere} :
           zone' = [zone EXCEPT ![r] = Written(h, c, "operator")]
    /\ UNCHANGED basis

OperatorRemoves(r) ==
    /\ IsLive(r)
    /\ zone' = [zone EXCEPT ![r] = Removed("withdrawn")]
    /\ UNCHANGED basis

-----------------------------------------------------------------------------
(* NurProxy. *)

\* A new record, only at a name that has none, and only towards an agent.
Creates(r) ==
    /\ zone[r].fate = "unborn"
    /\ \E h \in Hosts, a \in Agents :
          /\ At(h) = {}
          /\ zone' = [zone EXCEPT ![r] = Written(h, a, "nurproxy")]
    /\ basis' = [basis EXCEPT ![r] = "created"]

\* Taking a record that is already there as its own answer, unchanged.
Adopts(r) ==
    /\ zone[r].fate # "unborn"
    /\ basis' = Based({r}, "adopted")
    /\ UNCHANGED zone

\* An admin orders a takeover of records at a name.
IsGranted(R) ==
    /\ \A r \in R : zone[r].fate # "unborn"
    /\ basis' = Based(R, "takeover")
    /\ UNCHANGED zone

\* Pointing a record NurProxy has a basis for at an agent.
Retargets(r) ==
    /\ IsLive(r)
    /\ basis[r] # "none"
    /\ \E h \in Hosts, a \in Agents :
           zone' = [zone EXCEPT ![r] = Written(h, a, "nurproxy")]
    /\ UNCHANGED basis

Removes(r) ==
    /\ IsLive(r)
    /\ basis[r] \in {"created", "takeover"}
    /\ zone' = Deleted(r)
    /\ UNCHANGED basis

Next ==
    \/ \E r \in RecIds :
          \/ OperatorWrites(r) \/ OperatorRemoves(r)
          \/ Creates(r) \/ Adopts(r) \/ Retargets(r) \/ Removes(r)
    \/ \E R \in SUBSET RecIds : IsGranted(R)

Spec == ZoneInit /\ [][Next]_<<zone, basis>>
=============================================================================
