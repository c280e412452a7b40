-------------------------- MODULE MCPlayerRegistry --------------------------
(* An account, another whose id is the first one's with "_" appended, and  *)
(* a third; characters in a suffixed folder and in encoded ones.           *)
EXTENDS PlayerRegistry

CONSTANTS anna, anna_, zoe, code
MCUsers == {anna, anna_, zoe}
MCSuffixed == {anna_}
MCTrimmed == [u \in MCUsers |-> IF u = anna_ THEN anna ELSE NoUser]
MCEncoded == {code}
MCPlaces == {<<"Master", anna_>>, <<"Master", code>>, <<"Caves", code>>}

Resuming(t) == [kind |-> "resuming", folder |-> code, stamp |-> t]
Owner(t) == [kind |-> "owner", user |-> anna, stamp |-> t]
Common == {[kind |-> "authenticated", user |-> anna], Owner("t1")}
MCPrinted == [s \in {"Master", "Caves"} |->
                IF s = "Caves" THEN Common ELSE Common \cup {Resuming("t1"), [kind |-> "other"], Owner("none")}]

InMaster(x, none) == [s \in {"Master", "Caves"} |-> IF s = "Master" THEN x ELSE none]
Takes(u) == [user |-> u, folder |-> code]

\* The uploaded logs tell of one owner of the encoded folders, or of two.
MCUploads ==
    {[saves |-> {<<"Master", anna_>>, <<"Master", code>>, <<"Caves", code>>},
      owner |-> InMaster(anna, NoUser),
      names |-> {anna}, links |-> InMaster({Takes(anna)}, {Takes(anna)})],
     [saves |-> {<<"Master", code>>},
      owner |-> InMaster(zoe, NoUser),
      names |-> {anna_, zoe}, links |-> InMaster({Takes(anna_), Takes(zoe)}, {})]}
=============================================================================
