------------------------------ MODULE MCAdmission ------------------------------
EXTENDS Admission

MCNamespaces == {<<"a">>, <<"a", "-", "b">>, <<"a", "b", "b", "a">>, <<"a", "-", "-", "b">>, <<"orgadmin">>}
\* As a pattern the resolved name of "b-a" matches that of "bba".
MCNames == {<<"a">>, <<"b", "-", "a">>, <<"b", "b", "a">>}

\* Two namespaces with the same truncated hash.
MCSuffix == [n \in MCNamespaces |-> IF n = <<"a">> THEN <<"b">> ELSE <<"a">>]

File(clouds, org, account, valid, region, days) ==
    [clouds |-> clouds, org |-> org, orgAdminAccount |-> account,
     settingsValid |-> valid, awsRegion |-> region, graceDays |-> days]

MCBaseFiles == {
    File({"aws"}, <<"a">>, <<"b">>, TRUE, TRUE, {}),
    File({"aws"}, <<"a", "_", "b">>, <<"a">>, TRUE, TRUE, {7}),
    File({"aws"}, <<"orgadmin">>, <<"a">>, TRUE, TRUE, {90}),
    File({"aws"}, <<"a", "_", "_", "b">>, <<"a">>, TRUE, TRUE, {31}),
    File({"aws"}, <<"a">>, <<"b">>, TRUE, TRUE, {6}),
    File({"aws"}, <<"a">>, <<"b">>, TRUE, TRUE, {91}),
    File({"aws"}, <<"a">>, <<"b">>, FALSE, TRUE, {}),
    File({"aws"}, <<"a">>, <<"b">>, TRUE, FALSE, {}),
    File({"azure"}, <<"a">>, <<"b">>, TRUE, TRUE, {}),
    File({"aws", "gcp"}, <<"a">>, <<"b">>, TRUE, TRUE, {})}

Link(name, type, ranges) == [connection |-> name, type |-> type, maxCidrs |-> ranges]
Entry(name, ips) == [connection |-> name, allowedIPs |-> ips]
RegionOf(available, inventory, allowlist) ==
    [available |-> available, inventory |-> inventory, allowlist |-> allowlist]

MCMappedPrefix == <<1>>

\* Every pair of ranges up to the last bits of the first one's address (flipping the same
\* last bits in both changes nothing), and each way a region can be wrong.
Narrowed ==
    {RegionOf("true", <<Link("agn", "IPV4", {m})>>, <<Entry("agn", {ip})>>) :
        m \in {r \in Ranges : \A i \in Wide - Bits + 1 .. Wide : r.ip[i] = 0}, ip \in Ranges}
All == [family |-> "IPv4", ip |-> [i \in 1 .. Wide |-> IF i = 1 THEN 1 ELSE 0], ones |-> 0]
Others == {
    RegionOf("omitted", <<Link("agn", "IPV4", {}), Link("dbt", "IPV4", {All})>>, <<Entry("agn", {}), Entry("dbt", {All})>>),
    RegionOf("true", <<Link("agn", "IPV4", {}), Link("agn", "IPV4", {All})>>, <<>>),
    RegionOf("true", <<Link("agn", "IPV4", {})>>, <<Entry("agn", {All})>>),
    RegionOf("true", <<Link("agn", "IPV4", {Malformed})>>, <<>>),
    RegionOf("true", <<Link("agn", "IPV4", {All})>>, <<Entry("dbt", {All})>>),
    RegionOf("true", <<Link("agn", "", {})>>, <<>>),
    RegionOf("true", <<Link("", "IPV4", {})>>, <<>>)}

MCBackplaneFiles == {[r \in {"here"} |-> region] : region \in Narrowed \cup Others}

\* The pairs of ranges are tried with one base file, each of the other files with both
\* good and faulty regions.
MCInit ==
    /\ Init
    /\ regions["here"] \in Narrowed => file = File({"aws"}, <<"a">>, <<"b">>, TRUE, TRUE, {})

MCSpec == MCInit /\ [][Next]_vars
=============================================================================
