----------------------------- MODULE MCFormats -----------------------------
EXTENDS Formats

Without ==
  [named |-> {"alert"}, title |-> "text", expr |-> "text", labels |-> "absent",
   annotations |-> "absent", waits |-> "absent"]

RuleSorts ==
  {[Without EXCEPT !.labels = labels] : labels \in Fields}
    \cup {[Without EXCEPT !.expr = expr] : expr \in {"missing", "other", "blank"}}
    \cup {[Without EXCEPT !.named = {"alert", "record"}],
          [Without EXCEPT !.title = "blank"],
          [Without EXCEPT !.annotations = "other"], [Without EXCEPT !.waits = "other"]}

\* "m_u_app_long_alerts" has 512 bytes.
MCWidth(part) ==
  CASE part = "long" -> 497 [] part = "alerts" -> 6 [] part = "app" -> 3 [] OTHER -> 1

G(name, n) == [name |-> <<name>>, rules |-> [i \in 1..n |-> Without]]

MCSnapshots ==
  {[groups |-> groups, size |-> size, depth |-> depth, nodes |-> size] :
     groups \in {<<G("a", 1)>>, <<G("b", 2)>>, <<G("a", 1), G("c", 0)>>,
                 <<G("c", 1), G("c", 0)>>},
     size \in {2, 5, 6, 7, 13}, depth \in {2, 3}}

MCCaches ==
  {[kind |-> "cache", snapshots |-> snapshots, form |-> form, ratio |-> ratio] :
     snapshots \in UNION {[ids -> MCSnapshots] : ids \in SUBSET {1, 7}},
     form \in {"json", "xz"}, ratio \in {2, 3}}

MCDurations ==
  {Unset} \cup {<< <<n, u>> >> : n \in {0, 1, 60}, u \in {"s", "m", "h", "y"}}
    \cup {<< <<n, "h">>, <<m, "m">> >> : n \in {0, 1}, m \in {0, 60}}
    \cup {<< <<7, "d">> >>, << <<1, "w">> >>, << <<365, "d">> >>, << <<24, "h">> >>,
          << <<1, "d">> >>, << <<3600, "s">> >>}

MCTexts == [wait : MCDurations, labels : {"absent", "null", "texts"}]

MCSpelledRules ==
  {[kind |-> "rules", live |-> live, offered |-> offered] :
     live \in MCTexts, offered \in MCTexts}

\* A batch as it is in the code: 1024 mutations.
MCTries == [work : {0, 1, 1023, 1024, 1025}, fault : {Unset, 1, 1024}]

MCReconciles ==
  {[kind |-> "reconcile", tries |-> <<a, b, c, d>>, persists |-> persists] :
     a \in MCTries, b \in {t \in MCTries : t.work # 1}, c \in {t \in MCTries : t.work > 1023},
     d \in {t \in MCTries : t.work > 1023}, persists \in BOOLEAN}

\* "x" and "x_y" are names of directories and groups; "r" is a stem.
Official(dir, name, rule) ==
  [form |-> "official", dir |-> dir, stem |-> <<"r">>, suffix |-> "rules",
   groups |-> <<[name |-> name, rules |-> <<rule>>]>>]

Single(dir, suffix) ==
  [form |-> "single", dir |-> dir, stem |-> <<"y">>, suffix |-> suffix, rule |-> Without]

MCDirs == {<<>>, <<"x">>}

MCFiles ==
  {Official(dir, <<"y">>, rule) : dir \in MCDirs, rule \in RuleSorts}
    \cup {Official(dir, name, Without) :
            dir \in MCDirs, name \in {<<>>, <<"x", "y">>, <<"long">>, <<"tab">>, <<" ">>}}
    \cup {Single(dir, suffix) : dir \in MCDirs, suffix \in {"rule", "txt"}}
    \cup {[form |-> "neither", dir |-> <<>>, stem |-> <<"r">>, suffix |-> "rule"]}

\* The last one, without its topology, has a group named like another's.
FewFiles ==
  {<<Official(<<>>, <<"y">>, Without)>>, <<Official(<<"x">>, <<"y">>, Without)>>,
   <<Official(<<>>, <<"x", "y">>, [Without EXCEPT !.labels = "null"])>>,
   <<Single(<<>>, "rule"), Official(<<"x">>, <<"long">>, Without)>>,
   <<Official(<<"m">>, <<"u", "app", "y">>, Without)>>}

Usual == [skip |-> FALSE, forward |-> TRUE, recursive |-> TRUE, extra |-> "absent"]

MCOptions ==
  [skip : BOOLEAN, forward : BOOLEAN, recursive : BOOLEAN, extra : {"absent"}]
    \cup [skip : BOOLEAN, forward : {TRUE}, recursive : {TRUE}, extra : {"texts", "other"}]

App(files, name, options) ==
  [files |-> files, topology |-> <<"m", "u", name>>, skip |-> options.skip,
   forward |-> options.forward, recursive |-> options.recursive, extra |-> options.extra]

\* An application with any two files, or with few files and any options.
FirstApps ==
  {App(<<f, Official(<<"x">>, name, Without)>>, "app", Usual) :
     f \in MCFiles, name \in {<<>>, <<"y">>, <<"x", "y">>}}
    \cup {App(files, "app", options) : files \in FewFiles, options \in MCOptions}

SecondApps ==
  {App(<<f>>, "x", Usual) : f \in {k \in MCFiles : k.dir = <<>>}}
    \cup {App(files, "x", options) : files \in FewFiles, options \in MCOptions}

MCConsumers == {[kind |-> "consumers", apps |-> <<a, b>>] : a \in FirstApps, b \in SecondApps}

MCNumber == [port \in {"0", "443", "9000"} |->
               CASE port = "0" -> 0 [] port = "443" -> 443 [] port = "9000" -> 9000]

MCEndpoints ==
  {scheme \o host \o port \o end :
     scheme \in {<<>>, <<"http", ":", "/", "/">>, <<"https", ":", "/", "/">>,
                 <<"ftp", ":", "/", "/">>, <<"https", ":">>},
     host \in {<<>>, <<"minio">>, <<"http">>, <<"443">>, <<"u", "@", "minio">>},
     port \in {<<>>, <<":">>} \cup {<<":", p>> : p \in {"0", "443", "9000", "minio"}},
     end \in {<<>>, <<"/">>, <<"/", "/">>, <<"/", "minio">>, <<"?", "q">>}} \ {<<>>}

FewEndpoints ==
  {<<"minio">>, <<"https", ":", "/", "/", "minio">>, <<"minio", ":", "minio">>,
   <<"https", ":", "/", "/">>}

Relation(endpoint) == [given |-> Required, path |-> FALSE, endpoint |-> endpoint]

MCRelations ==
  {Absent} \cup
  [given : {Required, Required \ {"bucket"}}, path : BOOLEAN, endpoint : FewEndpoints]

MCSettings ==
  [s3 : {None}, members : {None, <<>>, <<"10.0.0.2">>},
   version : {None, <<3, 4>>, <<3, 3, 9>>},
   migrations : {<<>>, <<[date |-> "2025-01-01", version |-> "v14"],
                         [date |-> None, version |-> "v15"]>>},
   data_dir : {"/var/lib/loki"}, retention : {0, 30}, reporting : {TRUE},
   tls : {FALSE}, alertmanager : {None}, uid : {None}, external : {None},
   rate : {4}, burst : {6}]

Deployed(relation, planned, settings) ==
  [kind |-> "deployment", relation |-> relation, planned |-> planned, settings |-> settings]

Plainly == CHOOSE settings \in MCSettings : settings.migrations = <<>>

\* All settings for few endpoints, all endpoints for few settings.
Offers == {Absent} \cup {Relation(endpoint) : endpoint \in MCEndpoints} \cup MCRelations

MCDeployments ==
  {[kind |-> "deployment", relation |-> d[1], planned |-> d[2], settings |-> d[3]] :
     d \in {c \in Offers \X {1, 3} \X MCSettings : c[1] \in MCRelations \/ c[3] = Plainly}}

MCUrls == [scheme : {"http", "https"}, address : {"a1", "a2"}, rest : {Absent, "brackets"}]

MCUnits ==
  {Gone, [schema |-> "none"]} \cup {[schema |-> "v1", url |-> url] : url \in MCUrls}
    \cup {[schema |-> "v0", url |-> url] : url \in {u \in MCUrls : u.rest = Absent}}
    \cup {[schema |-> "v0-default", url |-> url] :
            url \in {u \in MCUrls : u.rest = Absent /\ u.scheme = "http"}}

MCAlertmanagers ==
  {[kind |-> "alertmanagers", units |-> units] : units \in [1..3 -> MCUnits]}
=============================================================================
