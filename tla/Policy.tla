-------------------------------- MODULE Policy --------------------------------
(****************************************************************************)
(* The policy engine's answer: which rules match a path, which of them      *)
(* counts, and whether the principal may do what it asks.  A path is a      *)
(* sequence of segments.  A rule's pattern is a sequence of segments, in    *)
(* which "+" stands for any one segment, with a tail: "exact", "under" (the *)
(* pattern ends in a star after a slash: the path itself or anything below) *)
(* or "all" (the pattern is a star).  A specificity score counts segments   *)
(* where the code counts characters: every name weighs the same here.       *)
(****************************************************************************)
EXTENDS Integers, Sequences, FiniteSets

CONSTANT DefaultSpace    \* what {{default}} stands for in a rule's path

Capability == {"create", "read", "update", "delete", "list", "sudo", "deny"}

Rule(segs, tail, caps) == [segs |-> segs, tail |-> tail, caps |-> caps]
Exact(segs, caps) == Rule(segs, "exact", caps)
Under(segs, caps) == Rule(segs, "under", caps)
NoMatch == -1

\* The specificity of a rule whose pattern has "+": a literal segment weighs 2.
matchPlus(rule, path) ==
    IF Len(rule.segs) = Len(path) /\ \A i \in DOMAIN path : rule.segs[i] \in {"+", path[i]}
    THEN Len(path) + Cardinality({i \in DOMAIN path : rule.segs[i] # "+"})
    ELSE NoMatch

matchPath(rule, path) ==
    CASE rule.tail = "all" -> 0
      [] rule.tail # "all" /\ \E i \in DOMAIN rule.segs : rule.segs[i] = "+" -> matchPlus(rule, path)
      [] OTHER ->
           LET n == Len(rule.segs)
               fits == IF rule.tail = "under" THEN n <= Len(path) /\ SubSeq(path, 1, n) = rule.segs
                                              ELSE path = rule.segs
           IN IF fits THEN 2 * n ELSE NoMatch

\* What one source of rules (a policy, or a user's own rules) says of a path: its
\* first rule among those with the highest score, and nothing of the others.
Hit(rules, path) ==
    LET score(i) == matchPath(rules[i], path)
        best == {i \in DOMAIN rules : /\ score(i) # NoMatch
                                      /\ \A j \in DOMAIN rules : score(j) <= score(i)}
        first == CHOOSE i \in best : \A j \in best : i <= j
    IN IF best = {} THEN {} ELSE {[score |-> score(first), caps |-> rules[first].caps]}

\* The hits of a principal's policies and of its own rules.
Hits(policies, names, own, path) ==
    (UNION {Hit(policies[n], path) : n \in names \cap DOMAIN policies}) \cup Hit(own, path)

Granted(hits, cap) ==
    /\ \A h \in hits : "deny" \notin h.caps
    /\ \E h \in hits : cap \in h.caps /\ \A g \in hits : g.score <= h.score

AllowUser(policies, names, own, path, cap) ==
    cap # "deny" /\ Granted(Hits(policies, names, own, path), cap)

\* The presets a data directory is seeded with.
BuiltinPolicies ==
    LET space == <<"spaces", DefaultSpace>>
        files == space \o <<"files">>
        reader == <<Exact(<<"spaces">>, {"list"}), Exact(space, {"read"}), Exact(files, {"list"}),
                    Under(files, {"read", "list"}), Exact(space \o <<"head">>, {"read"}),
                    Exact(<<"sys", "health">>, {"read"})>>
        identity == Under(files \o <<"identity">>, {"read"})
        all == {"create", "read", "update", "delete", "list"}
        writer(own) == <<Exact(<<"spaces">>, {"list"}), Exact(space, own), Exact(files, {"list"}),
                         Under(files, all), identity, Exact(space \o <<"head">>, {"read", "update"}),
                         Exact(space \o <<"push">>, {"update"}), Exact(<<"sys", "health">>, {"read"})>>
    IN [admin |-> <<Rule(<<>>, "all", all \cup {"sudo"})>>,
        lead |-> Append(writer({"read", "update", "delete"}),
                        Under(space \o <<"history">>, {"read", "list", "create"})),
        contributor |-> writer({"read"}),
        viewer |-> Append(reader, identity),
        auditor |-> Append(reader, Exact(<<"sys", "audit">>, {"read", "list"}))]
===============================================================================
