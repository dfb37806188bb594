-------------------------- MODULE MCImageConverter --------------------------
(***************************************************************************)
(* Constants of the converter's model for TLC: two images, one of them for *)
(* two platforms, that share a layer; one of them has a layer twice.       *)
(***************************************************************************)
EXTENDS ImageConverter

MCImage == {"nginx", "redis"}

MCLayer == {"base", "nginx", "redis"}

MCConfig == {"nginxConfig", "redisConfig", "otherConfig"}

MCExposed == [nginxConfig |-> {[port |-> 53, tcp |-> FALSE], [port |-> 443, tcp |-> TRUE],
                               [port |-> 8080, tcp |-> TRUE]},
              redisConfig |-> {},
              otherConfig |-> {}]

Manifest(platform, config, layers) ==
    [platform |-> platform, config |-> config, layers |-> layers]

ListOf(entries) == [entries |-> entries]

Entry(platform, digest) == [platform |-> platform, digest |-> digest]

\* "deep" needs five steps to its manifest, "empty" has no layers.
MCRemote ==
    [nginxIndex |-> ListOf(<<Entry("other", "nginxOther"), Entry("none", "empty"),
                             Entry("target", "nginxInner")>>),
     nginxInner |-> ListOf(<<Entry("none", "nginx")>>),
     nginx      |-> Manifest("target", "nginxConfig", <<"base", "nginx", "base">>),
     nginxOther |-> Manifest("other", "otherConfig", <<"nginx">>),
     redis      |-> Manifest("target", "redisConfig", <<"base", "redis">>),
     empty      |-> Manifest("target", "otherConfig", << >>),
     deep       |-> ListOf(<<Entry("target", "deep1")>>),
     deep1      |-> ListOf(<<Entry("target", "deep2")>>),
     deep2      |-> ListOf(<<Entry("target", "deep3")>>),
     deep3      |-> ListOf(<<Entry("target", "deep4")>>),
     deep4      |-> ListOf(<<Entry("target", "redis")>>)]

MCTag == [nginx |-> {"nginxIndex"}, redis |-> {"redis", "deep"}]

\* This registry labels its manifests as the theorem on ConvertedIsWhole needs.
ASSUME TruthfulRegistry == truthful(DOMAIN Remote \ {"nginxOther"})

=============================================================================
