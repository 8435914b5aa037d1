----------------------------- MODULE Configuration -----------------------------
(***************************************************************************)
(* What the two configuration files must look like for the process to      *)
(* start: base.yaml (internal/config/base) and backplane.yaml              *)
(* (internal/config/backplane), the latter with the address ranges of each *)
(* region.  A loader either accepts the file or ends the process, so the   *)
(* order of its checks does not matter.                                    *)
(***************************************************************************)
EXTENDS Naming, Integers, FiniteSets, Functions

CONSTANTS
    Bits,         \* bits of an IPv4 address, 32
    Wide,         \* bits of an IPv6 address, 128
    MappedPrefix  \* what an IPv4 address has in front of it as an IPv6 one, ::ffff:0:0

ASSUME ConfigurationAssumption ==
    /\ Bits \in Nat /\ Wide \in Nat /\ Bits <= Wide
    /\ MappedPrefix \in [1 .. Wide - Bits -> {0, 1}]

-----------------------------------------------------------------------------
(* base.yaml: its cloud sections, the organization, the days a deleted      *)
(* account can be restored ({} where omitted), and whether everything else *)
(* in it has its documented format and range.                              *)

Text == Name \cup {<<>>}
Optional(S) == {s \in SUBSET S : \A d, e \in s : d = e}

BaseFile == [clouds : SUBSET {"aws", "azure", "gcp"}, org : Text, orgAdminAccount : Text,
             settingsValid : BOOLEAN, awsRegion : BOOLEAN, graceDays : Optional(Int)]

OneCloud(file) == Cardinality(file.clouds) = 1
SettingsValid(file) == file.settingsValid

\* Mutated form: the lower bound of the range is Snowflake's.
GraceDaysOfSnowflake(file) == file.graceDays \subseteq 3 .. 90

GraceDaysValid(file) == file.graceDays \subseteq 7 .. 90
GraceDays(file) == IF file.graceDays = {} THEN 30 ELSE CHOOSE d \in file.graceDays : TRUE

LoadBase(file) ==
    /\ OneCloud(file)
    /\ IdentifierPattern(file.org)
    /\ IdentifierPattern(file.orgAdminAccount)
    /\ SettingsValid(file)
    /\ GraceDaysValid(file)

\* The key store: one is compiled in for aws only, and it needs a region.
KeyStoreOf(file) == file.clouds = {"aws"} /\ file.awsRegion

\* The days it keeps a deleted secret, thirty at most.
RecoveryWindow(file) == IF GraceDays(file) > 30 THEN 30 ELSE GraceDays(file)

-----------------------------------------------------------------------------
(* backplane.yaml.  An address is its bits, an IPv4 address those of its     *)
(* IPv6 form.  A range is an address and a prefix length, counted in the   *)
(* family it is written in; the address may have bits set behind the       *)
(* prefix, and one written in IPv6 may be an IPv4 address's mapped form.   *)
(* Malformed is a text that is none.                                       *)

Address == [1 .. Wide -> {0, 1}]
IsIPv4(address) == \A i \in 1 .. Wide - Bits : address[i] = MappedPrefix[i]

Malformed == [family |-> "none", ip |-> <<>>, ones |-> -1]
Ranges == {r \in [family : {"IPv4", "IPv6"}, ip : Address, ones : 0 .. Wide] :
              r.family = "IPv4" => IsIPv4(r.ip) /\ r.ones <= Bits}

Cidrs == SUBSET (Ranges \cup {Malformed})

BackplaneRegion == [available : {"true", "false", "omitted"},
                    inventory : Seq([connection : STRING, type : STRING, maxCidrs : Cidrs]),
                    allowlist : Seq([connection : STRING, allowedIPs : Cidrs])]

\* The bits that the range's mask keeps, of the address in its IPv6 form.
Kept(range) == 1 .. IF range.family = "IPv4" THEN Wide - Bits + range.ones ELSE range.ones
Network(range) == [i \in 1 .. Wide |-> IF i \in Kept(range) THEN range.ip[i] ELSE 0]

\* net.IPNet.Contains: network and address are compared as IPv4 where they are, and
\* never across the families.
Contains(range, address) ==
    /\ IsIPv4(Network(range)) <=> IsIPv4(address)
    /\ \A i \in Kept(range) : range.ip[i] = address[i]

\* Mutated form: the prefix lengths are not compared.
ContainsStart(ranges, candidate) == \E r \in ranges : Contains(r, candidate.ip)

\* The prefix lengths are compared as they are written, in whatever family.
ContainsCIDR(ranges, candidate) ==
    \E r \in ranges : candidate.ones >= r.ones /\ Contains(r, candidate.ip)

InventoryValid(inventory) ==
    /\ \A c \in Range(inventory) : c.connection # "" /\ c.type # "" /\ c.maxCidrs \subseteq Ranges
    /\ \A i, j \in DOMAIN inventory : inventory[i].connection = inventory[j].connection => i = j

\* A region's baseline allowlist narrows connections of its own inventory.
AllowlistValid(region) ==
    \A a \in Range(region.allowlist) : \E c \in Range(region.inventory) :
        /\ c.connection = a.connection
        /\ a.allowedIPs \subseteq Ranges
        /\ \A ip \in a.allowedIPs : ContainsCIDR(c.maxCidrs, ip)

LoadRegion(region) == InventoryValid(region.inventory) /\ AllowlistValid(region)

LoadBackplane(regions) == \A name \in DOMAIN regions : LoadRegion(regions[name])

\* A region that does not say so is not available.
Available(region) == region.available = "true"
=============================================================================
