------------------------------ MODULE MCGateway ------------------------------
(***************************************************************************)
(* Small configurations for Gateway.                                       *)
(***************************************************************************)
EXTENDS Gateway, TLC

M == <<"m">>
OrgM == <<"org", "m">>

\* An upstream with slashes in its ids, and one that compresses and has a model
\* called like an upstream.
MCOffers ==
  "slashes" :> [models |-> {M, OrgM}, codings |-> {}]
    @@ "gzips" :> [models |-> {M, <<"a">>}, codings |-> {"gzip", "br"}]

MCSnapshot == [last \in {"m", "a"} |-> <<last, "snapshot">>]

Upstream(name, url, key) == [name |-> name, url |-> url, key |-> key]

Line(us, keys) == [upstreams |-> us, keys |-> keys]

NoKeys == [n \in {} |-> None]
DefaultKey == None :> "kd"

TwoNamed == <<Upstream("a", "slashes", None), Upstream("b", "gzips", "kb")>>

\* Two named upstreams, with and without a default; an only one with a name
\* and without, which has slashes in its ids or compresses; one without a name
\* beside another; a name that comes twice.
MCFlags ==
  {Line(TwoNamed, DefaultKey),
   Line(TwoNamed, "a" :> "ka" @@ "b" :> "kc"),
   Line(<<Upstream("default", "gzips", None), Upstream("a", "slashes", None)>>,
        "default" :> "k1"),
   Line(<<Upstream("a", "slashes", None)>>, DefaultKey),
   Line(<<Upstream(None, "slashes", "ki")>>, DefaultKey),
   Line(<<Upstream(None, "gzips", None)>>, DefaultKey),
   Line(<<Upstream(None, "gzips", None), Upstream("a", "slashes", "ka")>>, DefaultKey),
   Line(<<Upstream("a", "slashes", None), Upstream("a", "gzips", None)>>, NoKeys)}

MCAccepts == {{}, {"gzip"}}
MCIds == {M, OrgM, <<"a">>, <<"a", "m">>, <<"a", "org", "m">>, <<"b", "a">>, <<"x", "m">>}
=============================================================================
