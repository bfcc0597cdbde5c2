--------------------------- MODULE MCBucketConfig ---------------------------
\* Instances of BucketConfig for TLC.
EXTENDS BucketConfig

Server == "server"     \* no custom domain
I == <<"i">>           \* the index page at the root
Folder == <<"d", "/">> \* the folder whose index page is DI
DI == Folder \o I
E == <<"e">>           \* the error page
PageKeys == {DI, E}
RootKey == {I}
Site == {[suffix |-> I, error |-> E]}
Page == <<"https://", "a">>
OneRule == {<<[origins |-> {StartsWith(<<"https://">>)}, methods |-> {Exactly(<<"GET">>)}]>>}
NoRules == {}

Get(host, path, browser, origin) == [host |-> host, path |-> path, browser |-> browser, origin |-> origin]
Ask == {Get("h", <<>>, FALSE, None), Get("h", Folder, FALSE, Page),
        Get(Server, <<"b">>, TRUE, None), Get(Server, <<"b", "/">> \o Folder, FALSE, None)}
AskRoot == {Get("h", <<>>, TRUE, None)}

HookC == [url |-> "c", events |-> {StartsWith(<<"s3:ObjectCreated:">>)}]
HookA == [url |-> "a", events |-> {Anything}]
Hooks == {<<HookC, HookA>>}
NoHooks == {}
=============================================================================
