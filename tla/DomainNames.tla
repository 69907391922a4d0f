---------------------------- MODULE DomainNames ----------------------------
(***************************************************************************)
(* Domain names (src/util.rs, is_valid_sni_hostname in src/sniff/mod.rs).  *)
(* A name is a sequence of characters: dots, hyphens, digits and letters   *)
(* matter to the code, so one or two of each stand for the rest.           *)
(***************************************************************************)
EXTENDS Integers, Sequences, FiniteSets, FiniteSetsExt

CONSTANTS
    None,
    MaxHostLen,     \* 253 in the code
    MaxLabelLen     \* 63 in the code

ASSUME NameAssumption == MaxHostLen \in Nat /\ MaxLabelLen \in Nat

Letters == {"a", "b", "A"}
Alphanumeric == Letters \cup {"1"}

\* to_ascii_lowercase
Lower(s) == [i \in DOMAIN s |-> IF s[i] = "A" THEN "a" ELSE s[i]]

\* canonical_domain: no dots at either end, lower case.
CanonicalDomain(d) ==
    LET kept == {i \in DOMAIN d : d[i] # "."}
    IN IF kept = {} THEN <<>> ELSE Lower(SubSeq(d, Min(kept), Max(kept)))

\* str::ends_with
EndsWith(d, s) == Len(d) >= Len(s) /\ SubSeq(d, Len(d) - Len(s) + 1, Len(d)) = s

\* Mutation of DomainMatchesSuffix: the character before the suffix is not
\* looked at.
AnyTail(domain, suffix) == EndsWith(CanonicalDomain(domain), CanonicalDomain(suffix))

\* domain_matches_suffix: the name itself, or the tail after one of its dots.
DomainMatchesSuffix(domain, suffix) ==
    LET d == CanonicalDomain(domain)
        s == CanonicalDomain(suffix)
    IN \/ d = s
       \/ /\ Len(d) > Len(s)
          /\ EndsWith(d, s)
          /\ d[Len(d) - Len(s)] = "."

\* The names that matches_canonical and compiled_geosite_contains look up in
\* turn: the name, then what follows each of its dots.
Parents(d) == {d} \cup {SubSeq(d, i + 1, Len(d)) : i \in {j \in DOMAIN d : d[j] = "."}}

\* str::contains
ContainsText(d, s) == \E i \in 0 .. Len(d) - Len(s) : SubSeq(d, i + 1, i + Len(s)) = s

\* is_valid_sni_hostname; more characters than a label may have hold a dot.
IsValidSniHostname(h) ==
    /\ h # <<>> /\ Len(h) <= MaxHostLen
    /\ \A i \in 1 .. Len(h) - MaxLabelLen : "." \in Range(SubSeq(h, i, i + MaxLabelLen))
    /\ Range(h) \subseteq Alphanumeric \cup {"-", "."}
    /\ Range(h) \cap Letters # {}
    /\ \A i \in DOMAIN h :
          \/ i = 1 \/ i = Len(h)
          \/ h[i - 1] = "." \/ h[i + 1] = "."
          => h[i] \in Alphanumeric

=============================================================================
