---------------------------- MODULE BucketConfig ----------------------------
(***************************************************************************)
(* What is configured for a bucket besides its policy and its lifecycle,   *)
(* and what reads it: custom domains and CORS rules (internal/middleware), *)
(* static websites (internal/handler/bucket.go, object.go) and webhooks    *)
(* (webhook.go).  Each configuration is a row of a table of bbolt.go under *)
(* the bucket's name, written whether the bucket exists or not, and not    *)
(* removed with it.  A visit reads several rows and objects, one           *)
(* transaction each, while they change; a webhook is called after the      *)
(* write it is about.  Buckets are without versioning here.                *)
(*                                                                         *)
(* A key or a path is the sequence of its pieces.                          *)
(***************************************************************************)
EXTENDS Policies, Naturals, Sequences, FiniteSets

CONSTANTS Visitors, Writers, \* request slots
          Buckets, Hosts,    \* Hosts: names that may become custom domains
          Keys,              \* keys that clients write
          Requests,          \* [host, path, browser, origin]: what visitors GET; a path is
                             \* without its first slash, and the server's own names a bucket
          Websites, CorsRules, Webhooks, \* configurations that clients put
          None,
          MaxWrites, MaxEvents \* bounds on changes and on the writes that make events

Slash == "/"

ASSUME PathsAssumption == \A r \in Requests : r.path \in Seq(STRING)

VARIABLES objects,  \* objects[b]: the keys of bucket b, or None
          domain,   \* domain[h]: the bucket of custom domain h, or None
          website, cors, notification, \* [b]: the configuration, or None
          visit,    \* visit[v]: where the request of v is
          notice,   \* notice[w]: the events of w's write it has yet to raise
          sending,  \* goroutines of fireWebhooks: of event e, the webhooks to come
          writes, events,
          seen,     \* History: what held at some instant since v's visit began
          owed      \* History: calls <<e, webhook>> to be made, see HooksCalled

tables == <<objects, domain, website, cors, notification>>
vars == <<tables, visit, notice, sending, writes, events, seen, owed>>

EndsInSlash(path) == path # <<>> /\ path[Len(path)] = Slash
Row(table, b) == IF b \in Buckets THEN table[b] ELSE None
NoVisit == [at |-> "idle"]
Nothing == [bucket |-> None, todo |-> <<>>]

\* The server starts on whatever an earlier one left in the tables.
Init ==
    /\ objects \in [Buckets -> {None} \cup SUBSET Keys]
    /\ domain \in [Hosts -> {None} \cup Buckets]
    /\ website \in [Buckets -> {None} \cup Websites]
    /\ cors \in [Buckets -> {None} \cup CorsRules]
    /\ notification \in [Buckets -> {None} \cup Webhooks]
    /\ visit = [v \in Visitors |-> NoVisit]
    /\ notice = [w \in Writers |-> Nothing]
    /\ sending = [e \in 1..MaxEvents |-> <<>>]
    /\ writes = 0 /\ events = 0
    /\ seen = [v \in Visitors |-> {}]
    /\ owed = {}

Exists(b) == Row(objects, b) # None
Has(b, k) == Exists(b) /\ k \in objects[b]

-----------------------------------------------------------------------------
(***************************************************************************)
(* History: the facts about tables that matter to visits.                  *)
(***************************************************************************)
Facts ==
    {<<"to", h, domain[h]>> : h \in Hosts}
    \cup {<<"site", b, website[b]>> : b \in Buckets}
    \cup {<<"cors", b, cors[b]>> : b \in Buckets}
    \cup {<<"gone", b, b>> : b \in {x \in Buckets : ~Exists(x)}}
    \cup {<<"has", x[1], x[2]>> : x \in {y \in Buckets \X Keys : Has(y[1], y[2])}}
    \cup {<<"lacks", x[1], x[2]>> : x \in {y \in Buckets \X Keys : ~Has(y[1], y[2])}}

Watch ==
    seen' = [v \in Visitors |-> IF visit'[v].at = "idle" THEN {}
                                ELSE IF visit[v].at = "idle" THEN Facts'
                                ELSE seen[v] \cup Facts']

\* The variables x stay; every step ends here.
Keep(x) == UNCHANGED x /\ Watch

-----------------------------------------------------------------------------
(***************************************************************************)
(* Changes of the tables, by S3 requests and from the console.             *)
(***************************************************************************)
busy == <<visit, notice, sending, events>>
Change == writes < MaxWrites /\ writes' = writes + 1

PutDomain(h, b) ==
    /\ Change
    /\ domain' = [domain EXCEPT ![h] = b]
    /\ Keep(<<objects, website, cors, notification, busy, owed>>)

\* Whichever bucket the request names.
DeleteDomain(h) ==
    /\ Change
    /\ domain' = [domain EXCEPT ![h] = None]
    /\ Keep(<<objects, website, cors, notification, busy, owed>>)

PutBucketWebsite(b) ==
    /\ Change
    /\ \E site \in Websites : website' = [website EXCEPT ![b] = site]
    /\ Keep(<<objects, domain, cors, notification, busy, owed>>)

DeleteBucketWebsite(b) ==
    /\ Change
    /\ website' = [website EXCEPT ![b] = None]
    /\ Keep(<<objects, domain, cors, notification, busy, owed>>)

PutBucketCors(b) ==
    /\ Change
    /\ \E rules \in CorsRules : cors' = [cors EXCEPT ![b] = rules]
    /\ Keep(<<objects, domain, website, notification, busy, owed>>)

DeleteBucketCors(b) ==
    /\ Change
    /\ cors' = [cors EXCEPT ![b] = None]
    /\ Keep(<<objects, domain, website, notification, busy, owed>>)

\* Of the calls owed, those that b's configuration no longer asks for and
\* whose event has not read it yet are owed no more.
Pending(b) == UNION {{notice[w].todo[i].id : i \in DOMAIN notice[w].todo} :
                     w \in {x \in Writers : notice[x].bucket = b}}
Listed(list) == {list[i] : i \in DOMAIN list}
StillOwed(b, list) == {o \in owed : o[1] \in Pending(b) => o[2] \in Listed(list)}

PutBucketNotification(b) ==
    /\ Change
    /\ \E list \in Webhooks :
          /\ notification' = [notification EXCEPT ![b] = list]
          /\ owed' = StillOwed(b, list)
    /\ Keep(<<objects, domain, website, cors, busy>>)

DeleteBucketNotification(b) ==
    /\ Change
    /\ notification' = [notification EXCEPT ![b] = None]
    /\ owed' = StillOwed(b, <<>>)
    /\ Keep(<<objects, domain, website, cors, busy>>)

CreateBucket(b) ==
    /\ Change
    /\ ~Exists(b)
    /\ objects' = [objects EXCEPT ![b] = {}]
    /\ Keep(<<domain, website, cors, notification, busy, owed>>)

\* The bucket's rows stay, and await the next bucket of that name.
DeleteBucket(b) ==
    /\ Change
    /\ objects[b] = {}
    /\ objects' = [objects EXCEPT ![b] = None]
    /\ Keep(<<domain, website, cors, notification, busy, owed>>)

-----------------------------------------------------------------------------
(***************************************************************************)
(* Writes and their webhooks.                                              *)
(***************************************************************************)
Created == <<"s3:ObjectCreated:", "Put">>
Removed == <<"s3:ObjectRemoved:", "Delete">>

Wants(hook, name) == matchListOrString(hook.events, name)

HooksOf(b) == IF notification[b] = None THEN <<>> ELSE notification[b]

\* The handler commits its write, answers, and then has n events of one name to raise.
Raise(w, b, name, n) ==
    LET ids == (events + 1)..(events + n)
    IN /\ notice[w] = Nothing
       /\ events + n <= MaxEvents /\ events' = events + n
       /\ notice' = [notice EXCEPT ![w] =
                        [bucket |-> b, todo |-> [i \in 1..n |-> [id |-> events + i, name |-> name]]]]
       /\ owed' = owed \cup (ids \X {hook \in Listed(HooksOf(b)) : Wants(hook, name)})

\* PutObject, CopyObject and CompleteMultipartUpload.
PutObject(w, b, k) ==
    /\ Change
    /\ Exists(b)
    /\ objects' = [objects EXCEPT ![b] = objects[b] \cup {k}]
    /\ Raise(w, b, Created, 1)
    /\ Keep(<<domain, website, cors, notification, visit, sending>>)

\* DeleteObject and DeleteObjects: a key that is not there counts as deleted,
\* and so does one of a bucket that is not there.
DeleteObjects(w, b, ks) ==
    /\ Change
    /\ objects' = IF Exists(b) THEN [objects EXCEPT ![b] = objects[b] \ ks] ELSE objects
    /\ Raise(w, b, Removed, Cardinality(ks))
    /\ Keep(<<domain, website, cors, notification, visit, sending>>)

\* Forms, the console and the lifecycle worker raise no event.
WriteQuietly(b, k) ==
    /\ Change
    /\ Exists(b)
    /\ \/ objects' = [objects EXCEPT ![b] = objects[b] \cup {k}]
       \/ objects' = [objects EXCEPT ![b] = objects[b] \ {k}]
    /\ Keep(<<domain, website, cors, notification, busy, owed>>)

\* Slip: the events of a bulk deletion after the first are forgotten.
FireWebhooksOnce(w) ==
    /\ notice[w].todo # <<>>
    /\ LET e == Head(notice[w].todo)
           todo == <<>>
       IN /\ sending' = [sending EXCEPT ![e.id] = [i \in DOMAIN HooksOf(notice[w].bucket) |->
                            [hook |-> HooksOf(notice[w].bucket)[i], name |-> e.name]]]
          /\ notice' = [notice EXCEPT ![w] = IF todo = <<>> THEN Nothing ELSE [@ EXCEPT !.todo = todo]]
    /\ Keep(<<tables, visit, writes, events, owed>>)

\* fireWebhooks reads the configuration and leaves the calls to a goroutine.
FireWebhooks(w) ==
    /\ notice[w].todo # <<>>
    /\ LET e == Head(notice[w].todo)
           todo == Tail(notice[w].todo)
       IN /\ sending' = [sending EXCEPT ![e.id] = [i \in DOMAIN HooksOf(notice[w].bucket) |->
                            [hook |-> HooksOf(notice[w].bucket)[i], name |-> e.name]]]
          /\ notice' = [notice EXCEPT ![w] = IF todo = <<>> THEN Nothing ELSE [@ EXCEPT !.todo = todo]]
    /\ Keep(<<tables, visit, writes, events, owed>>)

\* One webhook is called or passed over; whether the call succeeds or runs
\* into its time limit, the next one's turn comes.
Call(e) ==
    /\ sending[e] # <<>>
    /\ LET turn == Head(sending[e])
       IN /\ sending' = [sending EXCEPT ![e] = Tail(sending[e])]
          /\ owed' = IF Wants(turn.hook, turn.name) THEN owed \ {<<e, turn.hook>>} ELSE owed
    /\ Keep(<<tables, visit, notice, writes, events>>)

\* Whatever is yet to be raised or sent is lost.
Stop ==
    /\ Change
    /\ visit' = [v \in Visitors |-> NoVisit]
    /\ notice' = [w \in Writers |-> Nothing]
    /\ sending' = [e \in 1..MaxEvents |-> <<>>]
    /\ owed' = {}
    /\ Keep(<<tables, events>>)

-----------------------------------------------------------------------------
(***************************************************************************)
(* Visits: a GET passes CustomDomain, CORS and the router, and ends in     *)
(* ListObjects or GetObject, one read after the other.  Which requests may *)
(* read at all is Access's concern.                                        *)
(***************************************************************************)
visiting == <<tables, notice, sending, writes, events, owed>>
Go(v, x) == visit' = [visit EXCEPT ![v] = x]
Answer(v, kind, key) == Go(v, [visit[v] EXCEPT !.at = "done", !.answer = kind, !.key = key])

\* The bucket a path names, and the key after the slash that follows it.
BucketOf(path) == path[1]
KeyOf(path) == SubSeq(path, 3, Len(path))

\* The router's choice of ListObjects or GetObject.
Routed(path) == IF KeyOf(path) = <<>> THEN "list" ELSE "get"

getObjectKey(path, param) ==
    IF EndsInSlash(path) /\ ~EndsInSlash(param) THEN Append(param, Slash) ELSE param

Visit(v) ==
    /\ visit[v].at = "idle"
    /\ \E asked \in Requests :
          Go(v, [at |-> "host", asked |-> asked, path |-> asked.path, key |-> <<>>,
                 site |-> FALSE, allow |-> None, row |-> None, answer |-> "not found"])
    /\ Keep(visiting)

\* A custom domain's bucket goes in front of the path.
CustomDomain(v) ==
    /\ visit[v].at = "host"
    /\ LET asked == visit[v].asked
           b == IF asked.host \in Hosts THEN domain[asked.host] ELSE None
           path == IF b = None THEN asked.path ELSE <<b, Slash>> \o asked.path
       IN IF path = <<>> THEN Answer(v, "buckets", <<>>)
          ELSE Go(v, [visit[v] EXCEPT !.at = "cors", !.path = path, !.key = KeyOf(path),
                                      !.site = (b # None)])
    /\ Keep(visiting)

\* The origin that the rules let read the answer: everyone where there are none.
allowedOrigin(rules, origin) ==
    LET matched(rule) == matchListOrString(rule.origins, origin) /\ matchListOrString(rule.methods, <<"GET">>)
    IN IF rules \in {None, <<>>} THEN <<"*">>
       ELSE IF \E i \in DOMAIN rules : matched(rules[i]) THEN origin ELSE None

CORS(v) ==
    /\ visit[v].at = "cors"
    /\ LET path == visit[v].path
           origin == visit[v].asked.origin
       IN Go(v, [visit[v] EXCEPT !.at = Routed(path),
                                 !.allow = IF origin = None THEN None
                                           ELSE allowedOrigin(Row(cors, BucketOf(path)), origin)])
    /\ Keep(visiting)

IsWebsiteReq(v) == visit[v].asked.browser \/ visit[v].site

ListObjects(v) ==
    /\ visit[v].at = "list"
    /\ LET path == visit[v].path
           site == Row(website, BucketOf(path))
       IN IF IsWebsiteReq(v) /\ site # None /\ site.suffix # <<>>
          THEN Go(v, [visit[v] EXCEPT !.at = "get", !.key = getObjectKey(path, site.suffix)])
          ELSE Answer(v, "listing", <<>>)
    /\ Keep(visiting)

GetObject(v) ==
    /\ visit[v].at = "get"
    /\ LET b == BucketOf(visit[v].path)
           key == visit[v].key
       IN IF Has(b, key) THEN Answer(v, "page", key)
          ELSE IF ~Exists(b) THEN Answer(v, "no bucket", key)
          ELSE IF IsWebsiteReq(v) THEN Go(v, [visit[v] EXCEPT !.at = "site"])
          ELSE Answer(v, "not found", key)
    /\ Keep(visiting)

\* What is tried after the key, or after the index page, was not there; a
\* visit that is done without more is answered "not found".
AfterIndex(site) == IF site.error # <<>> THEN "error" ELSE "done"

\* Slip: the error page is tried before the index page.
GetBucketWebsiteErrorFirst(v) ==
    /\ visit[v].at = "site"
    /\ LET site == website[BucketOf(visit[v].path)]
       IN IF site = None THEN Answer(v, "not found", visit[v].key)
          ELSE Go(v, [visit[v] EXCEPT !.row = site, !.at = AfterIndex(site)])
    /\ Keep(visiting)

GetBucketWebsite(v) ==
    /\ visit[v].at = "site"
    /\ LET site == website[BucketOf(visit[v].path)]
       IN IF site = None THEN Answer(v, "not found", visit[v].key)
          ELSE Go(v, [visit[v] EXCEPT !.row = site,
                         !.at = IF EndsInSlash(visit[v].key) /\ site.suffix # <<>>
                                THEN "index" ELSE AfterIndex(site)])
    /\ Keep(visiting)

GetIndex(v) ==
    /\ visit[v].at = "index"
    /\ LET idxKey == visit[v].key \o visit[v].row.suffix
       IN IF Has(BucketOf(visit[v].path), idxKey) THEN Answer(v, "index", idxKey)
          ELSE Go(v, [visit[v] EXCEPT !.at = AfterIndex(visit[v].row)])
    /\ Keep(visiting)

GetError(v) ==
    /\ visit[v].at = "error"
    /\ LET b == BucketOf(visit[v].path)
       IN Go(v, [visit[v] EXCEPT !.at = "done",
                    !.answer = IF Has(b, visit[v].row.error) THEN "error page" ELSE "not found"])
    /\ Keep(visiting)

Leave(v) ==
    /\ visit[v].at = "done"
    /\ Go(v, NoVisit)
    /\ Keep(visiting)

VisitStep(v) ==
    \/ Visit(v) \/ CustomDomain(v) \/ CORS(v) \/ ListObjects(v) \/ GetObject(v)
    \/ GetBucketWebsite(v) \/ GetIndex(v) \/ GetError(v) \/ Leave(v)

ConfigStep(b) ==
    \/ PutBucketWebsite(b) \/ DeleteBucketWebsite(b)
    \/ PutBucketCors(b) \/ DeleteBucketCors(b)
    \/ PutBucketNotification(b) \/ DeleteBucketNotification(b)
    \/ CreateBucket(b) \/ DeleteBucket(b)

WriterStep(w) ==
    \/ \E b \in Buckets, k \in Keys : PutObject(w, b, k)
    \/ \E b \in Buckets, ks \in SUBSET Keys : DeleteObjects(w, b, ks)
    \/ FireWebhooks(w)

Next ==
    \/ \E v \in Visitors : VisitStep(v)
    \/ \E b \in Buckets : ConfigStep(b)
    \/ \E w \in Writers : WriterStep(w)
    \/ \E h \in Hosts : DeleteDomain(h) \/ \E b \in Buckets : PutDomain(h, b)
    \/ \E b \in Buckets, k \in Keys : WriteQuietly(b, k)
    \/ \E e \in 1..MaxEvents : Call(e)
    \/ Stop

\* A handler goes on to its webhooks and their goroutine goes on: a call has a time limit.
Fairness ==
    /\ \A w \in Writers : WF_vars(FireWebhooks(w))
    /\ \A e \in 1..MaxEvents : WF_vars(Call(e))

Spec == Init /\ [][Next]_vars /\ Fairness

-----------------------------------------------------------------------------
(***************************************************************************)
(* Properties.                                                             *)
(***************************************************************************)
\* Configurations that stood at some instant of v's visit.
Stood(v, kind, b) == {f[3] : f \in {x \in seen[v] : x[1] = kind /\ x[2] = b}}
Held(v, b, k) == <<"has", b, k>> \in seen[v]
Lacked(v, b, k) == b \in Buckets /\ k \in Keys => <<"lacks", b, k>> \in seen[v]

\* The keys the visit may have gone for: the path's, or the site's index page.
Wanted(v) ==
    LET path == visit[v].path
        sites == Stood(v, "site", BucketOf(path)) \ {None}
    IN IF KeyOf(path) # <<>> THEN {KeyOf(path)}
       ELSE {getObjectKey(path, site.suffix) : site \in sites}

NoIndex(v, b, key, site) == EndsInSlash(key) /\ site.suffix # <<>> => Lacked(v, b, key \o site.suffix)

\* The answer rests on what stood during the visit, though no two of its
\* reads are of one instant: the bucket is the one the domain had; a page was
\* in it; an index or an error page is that of one configuration, and came in
\* only for pages that were lacking, as did "not found"; and who may read the
\* answer is as some rules of the bucket had it (vhost.go:35, cors.go:42,
\* bucket.go:134, object.go:188-210).
AnswersJustified ==
    \A v \in Visitors : visit[v].at = "done" /\ visit[v].answer # "buckets" =>
        LET x == visit[v]
            b == BucketOf(x.path)
            sites == Stood(v, "site", b)
            rules == IF b \in Buckets THEN Stood(v, "cors", b) ELSE {None}
        IN /\ x.asked.host \in Hosts => (IF x.site THEN b ELSE None) \in Stood(v, "to", x.asked.host)
           /\ x.asked.origin # None => x.allow \in {allowedOrigin(r, x.asked.origin) : r \in rules}
           /\ x.answer = "page" => x.key \in Wanted(v) /\ Held(v, b, x.key)
           /\ x.answer = "index" => \E site \in sites \ {None}, key \in Wanted(v) :
                 /\ x.key = key \o site.suffix /\ EndsInSlash(key)
                 /\ Held(v, b, x.key) /\ Lacked(v, b, key)
           /\ x.answer = "error page" => \E site \in sites \ {None} :
                 /\ x.row = site /\ Held(v, b, site.error)
                 /\ x.key \in Wanted(v) /\ Lacked(v, b, x.key) /\ NoIndex(v, b, x.key, site)
           /\ x.answer = "not found" => x.key \in Wanted(v) /\ Lacked(v, b, x.key)
           /\ x.answer = "not found" /\ IsWebsiteReq(v) /\ None \notin sites => \E site \in sites :
                 NoIndex(v, b, x.key, site) /\ (site.error # <<>> => Lacked(v, b, site.error))
           /\ x.answer = "no bucket" /\ b \in Buckets => <<"gone", b, b>> \in seen[v]

\* Every webhook that a write's event is due is called, unless the server stops
\* or the webhook's configuration goes before the event has read it: events of
\* one bulk deletion, of other writers and changes of the configuration do not
\* make it miss its turn (webhook.go:27-95, object.go:472).
HooksCalled ==
    \A e \in 1..MaxEvents : \A hook \in UNION {Listed(list) : list \in Webhooks} :
        <<e, hook>> \in owed ~> <<e, hook>> \notin owed

\* Claimed by docs/USER_GUIDE.md:81 ("navigating to `http://cdn.mycompany.com`
\* will automatically serve the static `index.html` file from the root of this
\* bucket"): a visit to the root of a custom domain whose site and index page
\* stand all along is answered with that page.
RootServesIndex ==
    \A v \in Visitors :
        LET x == visit[v]
            b == BucketOf(x.path)
        IN x.at = "done" /\ x.site /\ x.asked.path = <<>> =>
              \A site \in Websites :
                  /\ site.suffix # <<>> /\ Stood(v, "site", b) = {site}
                  /\ ~Lacked(v, b, site.suffix)
                  => x.answer = "page" /\ x.key = site.suffix

=============================================================================
