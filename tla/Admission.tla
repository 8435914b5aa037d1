------------------------------- MODULE Admission -------------------------------
(***************************************************************************)
(* From the configuration files to the names under which accounts are      *)
(* created: the process starts if its files allow it (cmd/provider), and   *)
(* from then on createAccount (internal/account/modules/account) admits or *)
(* refuses each resource before any side effect, and stores a credential   *)
(* for those it admits.  What becomes of them is AccountLifecycle.         *)
(***************************************************************************)
EXTENDS Configuration

CONSTANTS
    Names,          \* names of resources
    BaseFiles,      \* base.yaml as found
    BackplaneFiles, \* backplane.yaml as found: its regions by name
    Regions,        \* values of spec.region
    Labels,         \* values of the namespace's alpha-tester label
    MaxResources    \* bound: resources at a time

Owners == Namespaces \X Names

ASSUME AdmissionAssumption ==
    /\ \A n \in Names : NameRule(n)
    /\ BaseFiles \subseteq BaseFile
    /\ \A b \in BackplaneFiles : Range(b) \subseteq BackplaneRegion
    /\ MaxResources \in Nat

VARIABLES
    process,   \* of the provider
    file,      \* its base.yaml
    regions,   \* its backplane.yaml
    resources  \* what became of each resource's last apply

vars == <<process, file, regions, resources>>

Outcomes == {"absent", "new", "user error", "system error", "too long", "stored"}

TypeOK ==
    /\ process \in {"down", "failed", "up"}
    /\ file \in BaseFiles
    /\ regions \in BackplaneFiles
    /\ resources \in [Owners -> Outcomes]

Init ==
    /\ process = "down"
    /\ file \in BaseFiles
    /\ regions \in BackplaneFiles
    /\ resources = [o \in Owners |-> "absent"]

-----------------------------------------------------------------------------
OrgAdminSegmentsValid == ValidateSegment(file.org) /\ ValidateSegment(file.orgAdminAccount)
OrgAdmin == OrgAdminIdentifier(file.org, file.orgAdminAccount)

\* main: both files, the key store, and the org-admin connection.
Starts ==
    /\ LoadBase(file)
    /\ LoadBackplane(regions)
    /\ KeyStoreOf(file)
    /\ OrgAdminSegmentsValid
    /\ CheckLen(OrgAdmin)

Start ==
    /\ process = "down"
    /\ \/ Starts /\ process' = "up"
       \/ process' = "failed"
    /\ UNCHANGED <<file, regions, resources>>

Identifier(o) == TenantIdentifier(file.org, o[1], o[2])
Resolved(o) == ResolveName(o[2], o[1])

\* checkCreatable: the region, unless the namespace tests ahead of everyone, and the
\* length of the name.
Region(r) == r \in DOMAIN regions
AlphaTester(label) == label = "true"
RegionOpen(r, label) == Region(r) /\ (Available(regions[r]) \/ AlphaTester(label))
CheckCreatable(o, r, label) == RegionOpen(r, label) /\ NameFits(file.org, o[2], o[1])

\* NewTenantIdentifier.
SegmentsValid(o) == \A s \in {file.org, o[1], o[2]} : ValidateSegment(s)

\* findAccountLocator, over the organization's accounts in the order they are shown.  A
\* locator stands for the resource the account was created for.
Row(p) == [account_name |-> Resolved(p), account_locator |-> p]
FindAccount(accounts, o) ==
    LET shown == {i \in DOMAIN accounts : Like(Resolved(o), Resolved(accounts[i]))}
    IN FindRow([i \in shown |-> Row(accounts[i])], "account_name", Resolved(o))

\* createAccount up to the stored credential.  A label that is no boolean counts only
\* where the region exists.
Verdict(o, r, label) ==
    IF Region(r) /\ label = "malformed" THEN "system error"
    ELSE IF ~CheckCreatable(o, r, label) \/ ~SegmentsValid(o) THEN "user error"
    ELSE IF ~CheckLen(Identifier(o)) THEN "too long"
    ELSE "stored"

\* The store may refuse the credential.
Apply(o, r, label) ==
    /\ process = "up"
    /\ resources[o] \notin {"absent", "stored"}
    /\ \E v \in {Verdict(o, r, label), "system error"} : resources' = [resources EXCEPT ![o] = v]
    /\ UNCHANGED <<process, file, regions>>

CreateResource(o) ==
    /\ resources[o] = "absent"
    /\ Cardinality({p \in Owners : resources[p] # "absent"}) < MaxResources
    /\ resources' = [resources EXCEPT ![o] = "new"]
    /\ UNCHANGED <<process, file, regions>>

\* Its secret is gone with it once the recovery window is over.
RemoveResource(o) ==
    /\ resources[o] # "absent"
    /\ resources' = [resources EXCEPT ![o] = "absent"]
    /\ UNCHANGED <<process, file, regions>>

Next ==
    \/ Start
    \/ \E o \in Owners :
          \/ CreateResource(o) \/ RemoveResource(o)
          \/ \E r \in Regions, label \in Labels : Apply(o, r, label)

Spec == Init /\ [][Next]_vars

-----------------------------------------------------------------------------
Stored == {o \in Owners : resources[o] = "stored"}

\* No two credentials share an identifier (identifier.go:36-43), with one exception: in
\* an organization named "orgadmin" the platform's own identifier is a tenant's as
\* well.  Accounts share a name only if their namespaces share a suffix.
NamesAreUnique ==
    /\ \A o, p \in Stored : Identifier(o) = Identifier(p) => o = p
    /\ (process = "up" /\ file.org # <<"orgadmin">>) => \A o \in Stored : Identifier(o) # OrgAdmin
    /\ \A o, p \in Stored : Resolved(o) = Resolved(p) => o[2] = p[2] /\ Suffix[o[1]] = Suffix[p[1]]

\* The limit on an identifier never refuses a name the limit on account names lets
\* through (identifier.go:67-74: "this should never actually trigger").
IdentifiersFit == \A o \in Owners : resources[o] # "too long"

\* A resumed create and the look-up after CREATE ACCOUNT record the locator of the row
\* they find (apply.go:316-319, "a row LIKE matched but is not an exact match is
\* discarded").  However the organization lists its accounts, whose names are unique,
\* a row is found if and only if the name is taken, and it is the resource's own unless
\* its namespace shares the suffix.
LookUpIsExact ==
    \A A \in SUBSET Stored :
        (\A p, q \in A : Resolved(p) = Resolved(q) => p = q) =>
            \A accounts \in Bijection(1 .. Cardinality(A), A), o \in Stored :
                LET found == FindAccount(accounts, o)
                    own == {p \in Owners : p[2] = o[2] /\ Suffix[p[1]] = Suffix[o[1]]}
                IN /\ found = {} <=> Resolved(o) \notin {Resolved(p) : p \in A}
                   /\ \A row \in found : row.account_locator \in own

\* The addresses a range denotes, and those that a connection may carry at most.
Addresses(range) == {a \in Address : \A i \in Kept(range) : range.ip[i] = a[i]}
MaxCidrs(region, connection) ==
    UNION {c.maxCidrs : c \in {c \in Range(region.inventory) : c.connection = connection}}
Carried(region, connection) == UNION {Addresses(m) : m \in MaxCidrs(region, connection)}

\* The one kind of entry the comparison of prefix lengths misjudges: it is written in the
\* IPv6 form of an IPv4 address, so its length counts bits the IPv4 ranges do not have.
Misjudged(region, connection, ip) ==
    /\ ip.family = "IPv6" /\ IsIPv4(ip.ip)
    /\ \E m \in MaxCidrs(region, connection) : m.family = "IPv4"

\* While the process runs, every deletion of a secret asks for a recovery window that
\* Secrets Manager can represent, 7 to 30 days, and none that outlasts the account's
\* (base.go:55-59, spec 003:51 "without outlasting it").
RecoveryFits ==
    process = "up" => RecoveryWindow(file) \in 7 .. 30 /\ RecoveryWindow(file) <= GraceDays(file)

\* While the process runs, no region's baseline lets an address through that its
\* connection may never carry (spec 007), whatever families its ranges are written in, but
\* for an entry in IPv4-mapped form judged by a range written in IPv4: "::ffff:10.0.0.0/97"
\* passes as within "10.0.0.0/8" (backplane.go drops the width Mask.Size reports).
RangesFit ==
    process = "up" =>
        \A r \in DOMAIN regions : \A a \in Range(regions[r].allowlist) : \A ip \in a.allowedIPs :
            \/ Addresses(ip) \subseteq Carried(regions[r], a.connection)
            \/ Misjudged(regions[r], a.connection, ip)
=============================================================================
