------------------------------ MODULE MCAccess ------------------------------
(***************************************************************************)
(* A server found with root and a user without key in the record, who is   *)
(* either an administrator or has an account with a key.  What an ordinary *)
(* user's requests may do depends on one IAM policy and the bucket's.      *)
(***************************************************************************)
EXTENDS Access, TLC

CONSTANT none

Stmt(effect, principal, action) ==
    [effect |-> effect, principal |-> principal, action |-> action,
     resource |-> {StartsWith(<<"arn:aws:s3:::", "b">>)}]

AllowRead == {Stmt("Allow", Text("*"), {StartsWith(<<"s3:", "Get">>)})}
DenyUser == {Stmt("Deny", AWS({Exactly(UserArn("u"))}), {Anything}),
             Stmt("Allow", Text("k"), {Exactly(<<"s3:", "Delete", "Bucket", "Policy">>)})}
MCDocs == {AllowRead, DenyUser}

User(isRoot, disabled, list, secrets, key) ==
    [isRoot |-> isRoot, disabled |-> disabled, policies |-> list, secrets |-> secrets, key |-> key]
MCBodies == {User(FALSE, FALSE, <<"p">>, FALSE, NoKey), User(FALSE, TRUE, <<"p">>, FALSE, NoKey)}
MCPolicyLists == {<<>>}

MCRecordKeys == [n \in {"root", "u"} |-> IF n = "root" THEN {"rk"} ELSE {NoKey}]

Database(admin, key) ==
    [users    |-> [n \in {"root", "u"} |->
                     IF n = "u" THEN User(admin, FALSE, IF admin THEN <<>> ELSE <<"p">>, admin, NoKey) ELSE none],
     accounts |-> [c \in {"rk", "k"} |->
                     IF c = "k" /\ key THEN [parent |-> "u", disabled |-> FALSE, expiry |-> "never"] ELSE none],
     iam      |-> [q \in {"p"} |-> AllowRead],
     owner    |-> none,
     policy   |-> none]
MCDatabases == {Database(TRUE, FALSE), Database(FALSE, TRUE)}

MCAsked == [GetObject |-> [action |-> <<"s3:", "Get", "Object">>, resource |-> <<"arn:aws:s3:::", "b", "/", "o">>],
            PutBucketPolicy |-> [action |-> <<"s3:", "Put", "Bucket", "Policy">>, resource |-> <<"arn:aws:s3:::", "b">>],
            DeleteBucketPolicy |-> [action |-> <<"s3:", "Delete", "Bucket", "Policy">>, resource |-> <<"arn:aws:s3:::", "b">>],
            DeleteBucket |-> [action |-> <<"s3:", "Delete", "Bucket">>, resource |-> <<"arn:aws:s3:::", "b">>]]

ProcSymmetry == Permutations(Procs)
=============================================================================
