------------------------------- MODULE DnsZone -------------------------------
(***************************************************************************)
(* The records of the DNS zones at the provider, as NurProxy's provider     *)
(* plugin sees them (internal/provider, internal/provider/cloudflare).      *)
(*                                                                          *)
(* A record is known by the id the provider gave it; ids are never reused.  *)
(* A name may hold several records that are not CNAMEs (an A and an AAAA    *)
(* record), but the provider refuses a CNAME at a name that already has a   *)
(* record.  Type and content are one value here: a CNAME to an agent's FQDN *)
(* is that agent, anything else is Elsewhere.                               *)
(*                                                                          *)
(* Two things are history, not state of the program: who removed or last    *)
(* wrote a record (fate, writer) and on what basis NurProxy acts on it.     *)
(***************************************************************************)
EXTENDS Naturals

CONSTANTS
    Hosts,      \* the names (FQDNs) a domain can have
    ZoneOf,     \* ZoneOf[h]: the DNS zone that name h belongs to
    Agents,     \* the agents; an agent's FQDN is the target of a CNAME
    RecIds,     \* the provider's record ids, each used once
    NoHost,     \* the name of a record that does not exist
    NoAgent,    \* the content of a record that does not exist
    Elsewhere   \* any content that is not a CNAME to an agent

ASSUME NullsDistinct ==
    /\ NoHost \notin Hosts
    /\ NoAgent \notin Agents \cup {Elsewhere}
    /\ Elsewhere \notin Agents

VARIABLES
    zone,       \* zone[r]: the record with id r
    basis       \* basis[r]: on what basis NurProxy acts on record r

Names == Hosts \cup {NoHost}
Contents == Agents \cup {Elsewhere, NoAgent}
Bases == {"none", "created", "adopted", "takeover"}
\* "withdrawn": removed by the operator; "deleted": removed by NurProxy.
Fates == {"unborn", "live", "withdrawn", "deleted"}
Writers == {"nobody", "operator", "nurproxy"}
Record == [fate: Fates, name: Names, content: Contents, writer: Writers]

Unborn == [fate |-> "unborn", name |-> NoHost, content |-> NoAgent, writer |-> "nobody"]
Written(h, c, w) == [fate |-> "live", name |-> h, content |-> c, writer |-> w]
\* A record that has been removed keeps nothing but who removed it.
Removed(f) == [Unborn EXCEPT !.fate = f]

ZoneTypeOK ==
    /\ zone \in [RecIds -> Record]
    /\ basis \in [RecIds -> Bases]

ZoneInit ==
    /\ zone = [r \in RecIds |-> Unborn]
    /\ basis = [r \in RecIds |-> "none"]

IsLive(r) == zone[r].fate = "live"

\* GET /zones/{zone}/dns_records/{id}: the id is looked up in the zone that the
\* asking domain's name h belongs to.
HasRecord(r, h) == IsLive(r) /\ ZoneOf[zone[r].name] = ZoneOf[h]

\* GET /zones/{zone}/dns_records?name=h: every record at name h, of any type.
At(h) == {r \in RecIds : IsLive(r) /\ zone[r].name = h}

\* The records a CNAME to agent a could be adopted from.
Matching(h, a) == {r \in At(h) : zone[r].content = a}

\* The id the provider gives the next record.  Ids are opaque and never reused, so
\* nothing depends on which unborn id it is.
IsNextId(r) ==
    /\ zone[r].fate = "unborn"
    /\ r = CHOOSE q \in RecIds : zone[q].fate = "unborn"

\* DELETE of a record that exists.
Deleted(r) == [zone EXCEPT ![r] = Removed("deleted")]

\* Of a basis a record already has and a new one, the stronger: a record NurProxy
\* created stays its own, a takeover outranks an adoption.
Strengthen(old, new) == IF old \in {"created", "takeover"} THEN old ELSE new
Based(R, b) == [r \in RecIds |-> IF r \in R THEN Strengthen(basis[r], b) ELSE basis[r]]
=============================================================================
