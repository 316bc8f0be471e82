----------------------------- MODULE Extraction ----------------------------
(***************************************************************************)
(* What Handler.Handle extracts from an owner and its namespace            *)
(* (handler.go), with the templates of utils.go and the getters of meta.go.*)
(*                                                                         *)
(* A text is a sequence of words, the empty string is << >>.  A template   *)
(* is a sequence of parts, literal words or calls of the functions that    *)
(* renderTemplate offers; title, lower, upper, cutPrefix and cutSuffix are *)
(* left out.  Of the labels and annotations, those of a map are a total    *)
(* function, "" where the key is absent, as in Go.  The annotations with   *)
(* the prefixes env. and deploy. are kept apart, in env and deploy: none   *)
(* of them is a default key.  Only the names of images are looked into:    *)
(* their words are characters, each of a class that the pattern of         *)
(* parseContainerImage tells from the others.                              *)
(***************************************************************************)
EXTENDS Integers, Sequences, SequencesExt

CONSTANTS
    Words,                 \* what texts are made of
    Chars,                 \* Chars[w]: the bytes of each character of w
    Class,                 \* Class[c]: what a character of an image is
    NoValue,               \* what a template writes for a missing value
    Keys,                  \* keys of labels and annotations
    Paths,                 \* JSON paths
    Attributes,            \* names of attributes
    MaxAttributeValueSize, \* in bytes (255)
    Error,                 \* a template that cannot be parsed or executed
    NoTemplate,            \* the configuration gives no template
    NoAttribute,           \* the attribute is not sent
    NoDeployment,          \* the payload has no deployment
    NoStatus,              \* the payload has no status
    NoDefault,             \* None: no default label or annotation
    NoContainer            \* image of a pod template without containers

Text == Seq(Words)

\* An image is written in characters.
Image == Seq(DOMAIN Class)

\* Kubernetes objects have names.
Name == Text \ {<< >>}

\* The attributes of these names, each by the sizes of its characters, and what
\* a payload with them is made of, for the references statuses are mapped to.
Sent(names) == [names -> Seq(0..4)]
DeploymentInfo(names) == [version : Text, attributes : Sent(names)]
Payload(references, names, deployNames) ==
    [app : Name, cat : Name, env : Name, url : Text, attributes : Sent(names),
     deployment : DeploymentInfo(deployNames) \cup {NoDeployment},
     status : references \cup {NoStatus}]

ASSUME ExtractionAssumption ==
    /\ Chars \in [Words -> Seq(1..4)]
    /\ DOMAIN Class \subseteq Words
    /\ \A c \in DOMAIN Class :
        /\ Class[c] \in {"word", "digit", ".", ":", "/", "other"}
        /\ Len(Chars[c]) = 1
    /\ NoValue \in Words
    /\ MaxAttributeValueSize \in Nat
    /\ Error \notin Text \cup Seq(Text) \cup {NoStatus, NoDeployment}
    /\ \A names \in SUBSET Attributes : Error \notin Sent(names) \cup DeploymentInfo(names)
    /\ NoAttribute \notin Text
    /\ NoDefault \notin Keys
    /\ {"app", "cat", "environment", "url", "version"} \subseteq Keys

Map == [Keys -> Text]
Values == [Attributes -> Text]

Namespace ==
    [name : Name, label : Map, annotation : Map, env : Values, deploy : Values,
     path : [Paths -> Text \cup {Error}]]

Owner ==
    [name : Name, label : Map, annotation : Map, env : Values, deploy : Values,
     path : [Paths -> Text \cup {Error}], status : STRING,
     image : Image \cup {NoContainer}]

\* The functions of a template by what they are called with.
OfKey == {"label", "annotation", "nsLabel", "nsAnnotation"}
OfPath == {"jsonPath", "nsJsonPath"}
OfNothing ==
    {"defaultLabel", "defaultAnnotation", "nsDefaultLabel", "nsDefaultAnnotation",
     "name", "nsName", "mainImageName", "mainImageTag", "invalid"}

IsPart(part) ==
    /\ part.fn \in {"text", "context"} \cup OfKey \cup OfPath \cup OfNothing
    /\ part.fn = "text" => part.arg \in Text
    /\ part.fn = "context" => part.arg \in {"app", "cat"}
    /\ part.fn \in OfKey => part.arg \in Keys
    /\ part.fn \in OfPath => part.arg \in Paths

IsTemplate(t) == t \in Seq(Range(t)) /\ \A i \in DOMAIN t : IsPart(t[i])

\* A listener's template for one of the names, url or version; or none.
MayBeTemplate(t) == t = NoTemplate \/ IsTemplate(t)

AreAttributes(configured) ==
    /\ configured \in Seq(Range(configured))
    /\ \A i \in DOMAIN configured : IsTemplate(configured[i].value)

IsListener(l) ==
    /\ \A field \in {"app", "cat", "env", "url", "version"} : MayBeTemplate(l[field])
    /\ AreAttributes(l.attributes) /\ AreAttributes(l.deployAttributes)
-----------------------------------------------------------------------------
(* parseContainerImage *)

\* The characters of [\w-_], and those of [\w-_/].
InWord(c) == Class[c] \in {"word", "digit"}
InName(c) == InWord(c) \/ Class[c] = "/"

\* Mutated form: a host needs no dot.
IsHostUndotted(s, n) ==
    \A i \in 1..n : InWord(s[i]) \/ (Class[s[i]] = "." /\ i \in 2..(n - 1) /\ InWord(s[i - 1]))

\* The first n characters are words with dots between them, at least one.
IsHost(s, n) ==
    /\ \A i \in 1..n : InWord(s[i]) \/ (Class[s[i]] = "." /\ i \in 2..(n - 1) /\ InWord(s[i - 1]))
    /\ \E i \in 1..n : Class[s[i]] = "."

\* They are a repository: a host, maybe with a port.
IsRepository(s, n) ==
    \E h \in 1..n :
        /\ \/ n = h
           \/ /\ n > h + 1 /\ Class[s[h + 1]] = ":"
              /\ \A i \in (h + 2)..n : Class[s[i]] = "digit"
        /\ IsHost(s, h)

\* Where a name may begin: after a repository, or without one.
NameStarts(s) == {b \in 1..Len(s) : InName(s[b]) /\ (b = 1 \/ IsRepository(s, b - 1))}

\* A name that may begin at b does so after a slash, if it can.
NameFirst(s, b) ==
    IF Class[s[b]] = "/" /\ b < Len(s) /\ InName(s[b + 1]) THEN b + 1 ELSE b

\* It goes on as long as it can.
NameLast(s, first) == Max({i \in first..Len(s) : \A j \in first..i : InName(s[j])})

\* The tag is the rest, after a colon if there is one.
TagFirst(s, last) == IF last < Len(s) /\ Class[s[last + 1]] = ":" THEN last + 2 ELSE last + 1

Parsed(s, first, last) ==
    [name |-> SubSeq(s, first, last), tag |-> SubSeq(s, TagFirst(s, last), Len(s))]

ParsedFrom(s, first) == Parsed(s, first, NameLast(s, first))

\* The pattern matches from left to right and takes all it can: the longest
\* repository that leaves something for a name, even if that splits a word or
\* a tag; then the name, and the tag.
parseContainerImage(s) == ParsedFrom(s, NameFirst(s, Max(NameStarts(s))))

\* GetMainImageName and GetMainImageTag: the first container's image, which may
\* not match.
MainImage(owner, part) ==
    IF owner.image = NoContainer THEN << >>
    ELSE IF NameStarts(owner.image) = {} THEN Error
    ELSE parseContainerImage(owner.image)[part]
-----------------------------------------------------------------------------
(* renderTemplate *)

\* One call of a template function; key is the default key, if there is one.
\* Only the name of the environment and its url see .App.Name and .Cat.Name.
Call(part, owner, ns, key, ctx) ==
    LET Default(map) == IF key = NoDefault THEN << >> ELSE map[key]
    IN  CASE part.fn = "text" -> part.arg
          [] part.fn = "label" -> owner.label[part.arg]
          [] part.fn = "annotation" -> owner.annotation[part.arg]
          [] part.fn = "nsLabel" -> ns.label[part.arg]
          [] part.fn = "nsAnnotation" -> ns.annotation[part.arg]
          [] part.fn = "defaultLabel" -> Default(owner.label)
          [] part.fn = "defaultAnnotation" -> Default(owner.annotation)
          [] part.fn = "nsDefaultLabel" -> Default(ns.label)
          [] part.fn = "nsDefaultAnnotation" -> Default(ns.annotation)
          [] part.fn = "name" -> owner.name
          [] part.fn = "nsName" -> ns.name
          [] part.fn = "mainImageName" -> MainImage(owner, "name")
          [] part.fn = "mainImageTag" -> MainImage(owner, "tag")
          [] part.fn = "jsonPath" -> owner.path[part.arg]
          [] part.fn = "nsJsonPath" -> ns.path[part.arg]
          [] part.fn = "context" -> ctx[part.arg]
          [] part.fn = "invalid" -> Error

\* One part that fails is enough.
OrError(parts) == IF \E i \in DOMAIN parts : parts[i] = Error THEN Error ELSE parts

Joined(parts) == IF parts = Error THEN Error ELSE FlattenSeq(parts)

Render(template, owner, ns, key, ctx) ==
    Joined(OrError([i \in DOMAIN template |-> Call(template[i], owner, ns, key, ctx)]))

\* Without a context .App.Name and .Cat.Name are missing keys of a map, which is
\* no error: the template goes on with "<no value>".
NoContext == [app |-> <<NoValue>>, cat |-> <<NoValue>>]

Fn(name) == <<[fn |-> name, arg |-> ""]>>

Defaults(chain, owner, ns, key) ==
    [i \in DOMAIN chain |-> Render(Fn(chain[i]), owner, ns, key, NoContext)]

\* Mutated form: a default template that fails is passed over.
FirstSkippingErrors(texts) ==
    LET hits == {i \in DOMAIN texts : texts[i] \notin {<< >>, Error}}
    IN  IF hits = {} THEN << >> ELSE texts[Min(hits)]

\* The first default template that yields something; a template that fails
\* before it decides as well.
FirstOf(texts) ==
    LET hits == {i \in DOMAIN texts : texts[i] # << >>}
    IN  IF hits = {} THEN << >> ELSE texts[Min(hits)]

\* The configured template, or the default ones.
Value(template, chain, owner, ns, key, ctx) ==
    IF template # NoTemplate THEN Render(template, owner, ns, key, ctx)
    ELSE FirstOf(Defaults(chain, owner, ns, key))

\* A name that comes out empty is an error.
Mandatory(text) == IF text = << >> THEN Error ELSE text
-----------------------------------------------------------------------------
(* The parts of a payload *)

\* The default templates; last is what is left when nothing is labelled.
OwnerChain(last) == <<"defaultLabel", "defaultAnnotation", last>>
NamespaceChain(last) ==
    <<"defaultLabel", "defaultAnnotation", "nsDefaultLabel", "nsDefaultAnnotation", last>>
UrlChain == <<"defaultLabel", "defaultAnnotation", "nsDefaultLabel", "nsDefaultAnnotation">>

\* getApplication
Application(l, owner, ns) ==
    Mandatory(Value(l.app, OwnerChain("mainImageName"), owner, ns, "app", NoContext))

\* getCategory
Category(l, owner, ns) ==
    Mandatory(Value(l.cat, NamespaceChain("nsName"), owner, ns, "cat", NoContext))

Context(l, owner, ns) ==
    [app |-> Application(l, owner, ns), cat |-> Category(l, owner, ns)]

\* getEnvironmentName
EnvironmentName(l, owner, ns) ==
    Mandatory(Value(l.env, NamespaceChain("name"), owner, ns, "environment",
                    Context(l, owner, ns)))

\* getEnvironmentUrl: it may be empty.
EnvironmentUrl(l, owner, ns) ==
    Value(l.url, UrlChain, owner, ns, "url", Context(l, owner, ns))

\* getVersionName: it may be empty too.
VersionName(l, owner, ns) ==
    Value(l.version, OwnerChain("mainImageTag"), owner, ns, "version", NoContext)

Replacement == 0

Bytes(s) ==
    LET sum[i \in 0..Len(s)] == IF i = 0 THEN 0 ELSE sum[i - 1] + s[i]
    IN  sum[Len(s)]

\* The characters of a text, each by its number of bytes.
CharsOf(text) == FlattenSeq([i \in DOMAIN text |-> Chars[text[i]]])

\* The characters s, cut after so many bytes; each byte of a character that is
\* cut in two becomes a replacement character in the JSON of the request.
Cut(s) ==
    LET kept == CHOOSE k \in 0..Len(s) :
                    /\ Bytes(SubSeq(s, 1, k)) <= MaxAttributeValueSize
                    /\ k = Len(s) \/ Bytes(SubSeq(s, 1, k + 1)) > MaxAttributeValueSize
        rest == MaxAttributeValueSize - Bytes(SubSeq(s, 1, kept))
    IN  IF kept = Len(s) THEN s
        ELSE SubSeq(s, 1, kept) \o [i \in 1..rest |-> Replacement]

\* truncate, then json.Marshal.
Truncate(text) == Cut(CharsOf(text))

\* The configured attributes, the last of a name, over them the annotations of
\* the owner and over those the annotations of its namespace, if not empty.
AttributeTexts(configured, annotations, nsAnnotations, owner, ns) ==
    [a \in Attributes |->
        LET own == {i \in DOMAIN configured : configured[i].name = a}
        IN  IF nsAnnotations[a] # << >> THEN nsAnnotations[a]
            ELSE IF annotations[a] # << >> THEN annotations[a]
            ELSE IF own = {} THEN NoAttribute
            ELSE Render(configured[Max(own)].value, owner, ns, NoDefault, NoContext)]

\* A template that fails fails them all, whatever overrides it.
AttributesFail(configured, owner, ns) ==
    \E i \in DOMAIN configured :
        Render(configured[i].value, owner, ns, NoDefault, NoContext) = Error

\* Mutated form: the configured values are truncated, the annotations are not.
TruncateConfigured(texts, annotations, nsAnnotations) ==
    [a \in {b \in Attributes : texts[b] # NoAttribute} |->
        IF annotations[a] = << >> /\ nsAnnotations[a] = << >>
        THEN Truncate(texts[a]) ELSE CharsOf(texts[a])]

\* What is sent of each attribute: all are truncated once all are known.
TruncateAll(texts, annotations, nsAnnotations) ==
    [a \in {b \in Attributes : texts[b] # NoAttribute} |-> Truncate(texts[a])]

\* getEnvironmentAttributes and getDeploymentAttributes differ in the
\* configuration and in the prefix of the annotations they read.
EnvironmentAttributes(l, owner, ns) ==
    IF AttributesFail(l.attributes, owner, ns) THEN Error
    ELSE TruncateAll(AttributeTexts(l.attributes, owner.env, ns.env, owner, ns),
                     owner.env, ns.env)

DeploymentAttributes(l, owner, ns) ==
    IF AttributesFail(l.deployAttributes, owner, ns) THEN Error
    ELSE TruncateAll(AttributeTexts(l.deployAttributes, owner.deploy, ns.deploy, owner, ns),
                     owner.deploy, ns.deploy)

\* getStatus: a mapping, if there is one, has a reference for each of these,
\* possibly an empty one; no status else is mapped.
Mapped == {"Up", "Down", "Deploy", "Failed"}

Status(mapping, owner) ==
    IF owner.status \in DOMAIN mapping THEN mapping[owner.status] ELSE NoStatus

\* getDeployment, unless the listener ignores deployments.
Deployment(l, owner, ns) ==
    IF l.ignoreDeployment THEN NoDeployment
    ELSE OrError([version |-> VersionName(l, owner, ns),
                  attributes |-> DeploymentAttributes(l, owner, ns)])

\* Handle up to the comparison with the cache: the first part that fails ends
\* it and nothing is sent.
Extract(l, mapping, owner, ns) ==
    OrError([app |-> Application(l, owner, ns),
             cat |-> Category(l, owner, ns),
             env |-> EnvironmentName(l, owner, ns),
             url |-> EnvironmentUrl(l, owner, ns),
             attributes |-> EnvironmentAttributes(l, owner, ns),
             deployment |-> Deployment(l, owner, ns),
             status |-> Status(mapping, owner)])
=============================================================================
