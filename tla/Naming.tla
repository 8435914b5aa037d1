-------------------------------- MODULE Naming --------------------------------
(***************************************************************************)
(* The names the provider derives from a resource: the identifier of its   *)
(* secret (internal/secrets/identifier.go), the account name Snowflake     *)
(* sees (internal/account/tenant/naming.go), and the rules the API server  *)
(* and base.yaml put on what they are derived from.                        *)
(*                                                                         *)
(* A name is a sequence of characters.  Letters and digits are told apart  *)
(* from each other but not by kind, and the word "orgadmin" is one         *)
(* character, so the length limits are constants scaled down with it.      *)
(***************************************************************************)
EXTENDS Naturals, Sequences

CONSTANTS
    Alphanumeric,      \* letters and digits
    MaxIdentifierLen,  \* maxIdentifierLen, 127
    MaxAccountLabelLen,\* maxAccountLabelLen, 63
    NamespaceMax,      \* the longest namespace, 63
    SuffixLen,         \* namespaceSuffixLen, 5
    Namespaces,        \* namespaces there are
    Suffix             \* the truncated hash of each

Dashes == {"-", "_"}
Name == Seq(Alphanumeric \cup Dashes) \ {<<>>}

ASSUME NamingAssumption ==
    /\ Dashes \cap Alphanumeric = {}
    /\ {"y", "k", "orgadmin"} \subseteq Alphanumeric
    /\ {MaxIdentifierLen, MaxAccountLabelLen, NamespaceMax, SuffixLen} \subseteq Nat

\* The limits as they stand leave room for what surrounds the segments: 63 + 63 + 5
\* <= 127 + 5.
ASSUME LimitsAssumption ==
    MaxAccountLabelLen + NamespaceMax + 5 <= MaxIdentifierLen + SuffixLen

-----------------------------------------------------------------------------
(* What the API server and base.yaml accept.                               *)

Alternates(s) == \A i \in DOMAIN s \ {Len(s)} : ~{s[i], s[i + 1]} \subseteq Dashes
EndsInLetters(s) == s[1] \in Alphanumeric /\ s[Len(s)] \in Alphanumeric
Without(s, c) == \A i \in DOMAIN s : s[i] # c

\* A DNS label: repeated dashes are allowed.
NamespaceRule(s) == s \in Name /\ EndsInLetters(s) /\ Without(s, "_") /\ Len(s) <= NamespaceMax

\* The rule on metadata.name: dashes stand alone.
NameRule(s) == s \in Name /\ EndsInLetters(s) /\ Without(s, "_") /\ Alternates(s)

\* identifierPattern, for snowflake.org and snowflake.orgAdminAccount.
IdentifierPattern(s) == s \in Name /\ s[1] \in Alphanumeric /\ Without(s, "-")

\* Namespaces exist as the API server accepts them, each with the hash of its name.
ASSUME NamespaceAssumption ==
    /\ \A n \in Namespaces : NamespaceRule(n)
    /\ Suffix \in [Namespaces -> {s \in Seq(Alphanumeric) : Len(s) = SuffixLen}]

-----------------------------------------------------------------------------
(* Secret identifiers.                                                     *)

ValidateSegment(s) == s \in Name /\ s[1] \in Alphanumeric /\ Alternates(s)

ToSecretSafe(s) == [i \in DOMAIN s |-> IF s[i] = "_" THEN "-" ELSE s[i]]

CheckLen(value) == Len(value) <= MaxIdentifierLen

\* Mutated form: segments are joined by one dash.
JoinByDash(s, t) == s \o <<"-">> \o t

Join(s, t) == s \o <<"-", "-">> \o t

Prefixed(s) == <<"y", "k", "-">> \o s

TenantIdentifier(org, namespace, name) ==
    Prefixed(Join(ToSecretSafe(org), Join(ToSecretSafe(namespace), ToSecretSafe(name))))

OrgAdminIdentifier(org, account) ==
    Prefixed(Join(<<"orgadmin">>, Join(ToSecretSafe(org), ToSecretSafe(account))))

-----------------------------------------------------------------------------
(* Account names.                                                          *)

ResolveName(name, namespace) ==
    [i \in DOMAIN name |-> IF name[i] = "-" THEN "_" ELSE name[i]] \o <<"_">> \o Suffix[namespace]

\* Mutated form: the organization's share of the label is forgotten.
NameFitsAlone(org, name, namespace) ==
    Len(name) + 1 + (Len(ResolveName(name, namespace)) - Len(name)) <= MaxAccountLabelLen

\* checkCreatable's bound on metadata.name, from the label "<org>-<resolved name>".
NameFits(org, name, namespace) ==
    Len(name) + 1 + Len(org) + (Len(ResolveName(name, namespace)) - Len(name)) <= MaxAccountLabelLen
-----------------------------------------------------------------------------
(* Looking an account up by its name.                                      *)

\* LIKE: each underscore of the pattern stands for any character.
Like(pattern, s) ==
    Len(s) = Len(pattern) /\ \A i \in DOMAIN pattern : pattern[i] \in {"_", s[i]}

\* Rows by their position in a result; the first of those in positions, if any.
First(rows, positions) == {rows[i] : i \in {i \in positions : \A j \in positions : i <= j}}

\* Mutated form: the first row that LIKE let through is taken.
FirstRow(rows, column, value) == First(rows, DOMAIN rows)

\* FindRow: the first row whose column has the value, if any.
FindRow(rows, column, value) == First(rows, {i \in DOMAIN rows : rows[i][column] = value})
=============================================================================
