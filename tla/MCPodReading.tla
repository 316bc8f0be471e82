---------------------------- MODULE MCPodReading ----------------------------
(* An instance of PodReading for TLC. *)
EXTENDS PodReading, TLC

\* Two-byte characters end "long"; a cut after five bytes falls inside one.
MCClass ==
    "a" :> "word" @@ "b" :> "word" @@ "1" :> "digit" @@ "2" :> "digit" @@ "." :> "."
    @@ ":" :> ":" @@ "/" :> "/" @@ "@" :> "other"
MCWords == {"web", "stage", "shop", "v1", "long", "<no value>"} \cup DOMAIN MCClass
MCChars ==
    [w \in MCWords |-> IF w = "long" THEN <<1, 1, 2, 2, 2>>
                       ELSE IF w \in DOMAIN MCClass THEN <<1>> ELSE <<1, 1>>]

MCPod == <<"Pod", "web-0">>
MCNamespace == <<"Namespace", "stage">>
MCReplicaSet == <<"ReplicaSet", "web-1">>
MCDeployment == <<"Deployment", "web">>
MCStatefulSet == <<"StatefulSet", "web">>
MCSlots == {MCPod, MCNamespace, MCReplicaSet, MCDeployment, MCStatefulSet}

Nothing == [k \in Keys |-> << >>]
NoValues == [a \in Attributes |-> << >>]

\* A deployment as its author wrote it.
Plain ==
    [name |-> <<"web">>, label |-> Nothing, annotation |-> Nothing,
     env |-> NoValues, deploy |-> NoValues,
     image |-> <<"a", ":", "1", "1">>,
     path |-> [p \in Paths |-> Error], status |-> "Up"]

\* Its next version; with every label, long annotations and an image of a
\* registry with a port, in two versions; with an image that cannot be parsed.
Next1 == [Plain EXCEPT !.image = <<"a", ":", "1", "2">>, !.status = "Deploy",
                       !.deploy["team"] = <<"long">>]
Labelled ==
    [Plain EXCEPT !.label["app"] = <<"shop">>, !.annotation["environment"] = <<"stage">>,
                  !.env["team"] = <<"long", "v1">>, !.path["url"] = <<"web">>,
                  !.image = <<"a", ".", "b", ":", "1", "/", "b", ":", "1">>]
Labelled2 == [Labelled EXCEPT !.image = <<"a", ".", "b", ":", "1", "/", "b", "@", "2">>]
Unparsed == [Labelled EXCEPT !.image = <<"@", "a">>]
Bare == [Plain EXCEPT !.image = NoContainer, !.status = "Unknown"]

PlainNamespace ==
    [name |-> <<"stage">>, label |-> Nothing, annotation |-> Nothing,
     env |-> NoValues, deploy |-> NoValues, path |-> [p \in Paths |-> Error]]
LabelledNamespace ==
    [PlainNamespace EXCEPT !.label["cat"] = <<"web">>, !.env["team"] = <<"long", "long">>]

Pod(labels, controller) ==
    [namespace |-> "stage", name |-> "web-0", labels |-> labels, controller |-> controller]

MCVariants ==
    MCPod :> {Pod("app" :> "web", MCReplicaSet),
              Pod("app" :> "web" @@ "db" :> "yes", MCStatefulSet),
              Pod("app" :> "web", <<"Node", "n1">>)}
    @@ MCReplicaSet :> {[controller |-> MCDeployment],
                        [controller |-> <<"Rollout", "web">>],
                        [controller |-> NoController]}
    @@ MCDeployment :> {Plain, Next1, Labelled, Labelled2, Unparsed}
    @@ MCStatefulSet :> {Bare}
    @@ MCNamespace :> {PlainNamespace, LabelledNamespace}

MCInitialObjects ==
    MCPod :> Pod("app" :> "web", MCReplicaSet)
    @@ MCReplicaSet :> [controller |-> MCDeployment]
    @@ MCDeployment :> Plain
    @@ MCStatefulSet :> NoObject
    @@ MCNamespace :> PlainNamespace

Default ==
    [id |-> "default", selectors |-> {}, app |-> NoTemplate, cat |-> NoTemplate,
     env |-> NoTemplate, url |-> NoTemplate, version |-> NoTemplate,
     attributes |-> << >>, deployAttributes |-> << >>, ignoreDeployment |-> FALSE]

Part(fn, arg) == [fn |-> fn, arg |-> arg]

\* Names made of others, a path that not every owner has, an attribute twice.
Templated ==
    [Default EXCEPT
        !.id = "templated",
        !.selectors = {[namespace |-> "stage", name |-> "", labels |-> << >>,
                        query |-> {[key |-> "db", op |-> "!exists", values |-> {}]}]},
        !.env = <<Part("context", "app"), Part("text", <<"web">>), Part("context", "cat")>>,
        !.url = <<Part("jsonPath", "url")>>,
        !.attributes = <<[name |-> "team", value |-> <<Part("name", "")>>],
                         [name |-> "team", value |-> <<Part("annotation", "cat")>>]>>,
        !.ignoreDeployment = TRUE]

\* Only the databases, whose application a label must name; its category asks
\* for the application, which templates of categories do not see.
Databases ==
    [Default EXCEPT
        !.id = "databases",
        !.selectors = {[namespace |-> "", name |-> "", labels |-> "app" :> "web",
                        query |-> {[key |-> "db", op |-> "in", values |-> {"yes"}]}]},
        !.app = <<Part("label", "app")>>, !.cat = <<Part("context", "app")>>,
        !.version = <<Part("mainImageTag", "")>>]

\* One environment per version.
Versioned ==
    [Default EXCEPT !.id = "versioned",
                    !.env = <<Part("name", ""), Part("mainImageTag", "")>>]

MCListeners == <<Default, Templated, Databases, Versioned>>

\* The references of Deploy and Failed are left empty.
MCStatusMapping == [Up |-> "up", Down |-> "down", Deploy |-> "", Failed |-> ""]
=============================================================================
