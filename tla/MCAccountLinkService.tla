------------------------ MODULE MCAccountLinkService ------------------------
(* Small instances of AccountLinkService for TLC. *)
EXTENDS AccountLinkService, TLC

Plain(t) == [pad |-> FALSE, text |-> t]
Padded(t) == [pad |-> TRUE, text |-> t]

Post(key, user, institution) ==
  [op |-> "create", malformed |-> FALSE, key |-> key,
   userID |-> user, externalInstitution |-> institution]

U == <<"u">>
C == <<"c">>
AB == <<"a", "b">>     \* the text a|b

CONSTANT k1

\* One key with two payloads, one of them also sent padded, and no key at all.
MCCalls == {Post(Plain(k1), Plain(U), Plain(C)),
            Post(Plain(k1), Padded(U), Plain(C)),
            Post(Plain(k1), Plain(C), Plain(C)),
            Post(Padded(NoKey), Plain(U), Plain(C))}

\* Contention only: one key, two payloads.
RaceCalls == {Post(Plain(k1), Plain(U), Plain(C)), Post(Plain(k1), Plain(C), Plain(C))}

\* Adds what the handler refuses: malformed JSON and blank fields.
RefusedCalls == {Post(Plain(k1), Padded(Blank), Plain(C)),
                 Post(Plain(k1), Plain(U), Plain(Blank)),
                 [Post(Plain(k1), Plain(U), Plain(C)) EXCEPT !.malformed = TRUE]}
MCAllCalls == MCCalls \cup RefusedCalls

\* Two payloads that are one text once joined with "|".
BarCalls == {Post(Plain(k1), Plain(AB), Plain(C)),
             Post(Plain(k1), Plain(<<"a">>), Plain(<<"b", "c">>))}

Symmetry == Permutations(Requests) \cup Permutations(Instances)
=============================================================================
