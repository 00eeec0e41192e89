------------------------------- MODULE Grants -------------------------------
(***************************************************************************)
(* The algebra of grants: what a RiakUser's spec.grants ask of Riak, what  *)
(* Riak's print-grants says it holds, and what has to be revoked for the   *)
(* two to agree (internal/riak/manager.go, internal/riak/executor.go).     *)
(*                                                                         *)
(* A grant is [resource, bucket, permission]; bucket is the sequence of    *)
(* the fields of bucketName.  Riak holds pairs of a key <<type, bucket>>   *)
(* and a token.  A line of print-grants is                                 *)
(* [kind, type, bucket, tokens]; of its wording only what the parser looks *)
(* at is kept.                                                             *)
(***************************************************************************)
EXTENDS Integers, FiniteSets, Sequences, Functions

AllTokens == {"get", "put", "delete", "list_keys", "list_buckets"}

\* riakKVPermissions; a permission that is not a friendly name is a token itself
riakKVPermissions(p) ==
    CASE p = "read"   -> {"get"}
      [] p = "write"  -> {"put"}
      [] p = "list"   -> {"list_keys", "list_buckets"}
      [] p = "admin"  -> AllTokens
      [] OTHER        -> {p}

permissionTokens(perms) == UNION {riakKVPermissions(p) : p \in perms}

\* grantTarget: a bucket grant must name a type, and a resource must be known.
TargetFails(resource, bucket) ==
    ~(resource = "any" \/ (resource = "bucket" /\ bucket # <<>>))

grantKey(resource, bucket) ==
    IF resource = "any" THEN <<"*", "*">>
    ELSE IF Len(bucket) = 1 THEN <<bucket[1], "*">> ELSE <<bucket[1], bucket[2]>>

\* GrantUserPermissions makes one call for each distinct resource and bucket.
GrantCalls(grants) ==
    LET On(r, b) == {g \in grants : g.resource = r /\ g.bucket = b}
    IN  {[resource |-> g.resource, bucket |-> g.bucket,
          tokens   |-> permissionTokens({h.permission : h \in On(g.resource, g.bucket)})] : g \in grants}

\* External: what a call adds to, or takes from, what Riak holds, under the
\* names print-grants has for its target
Pairs(call) ==
    {IF call.resource = "any" THEN <<"*", "*">>
     ELSE <<call.bucket[1], IF Len(call.bucket) > 1 THEN call.bucket[2] ELSE "*">>} \X call.tokens

\* What the grants of a spec mean, each by itself
Asked(grants) ==
    UNION {Pairs([resource |-> g.resource, bucket |-> g.bucket,
                  tokens |-> riakKVPermissions(g.permission)]) :
               g \in {h \in grants : ~TargetFails(h.resource, h.bucket)}}

-----------------------------------------------------------------------------
(* print-grants *)

\* External: the three sections, the table of the first and third with the same
\* columns; a list of tokens longer than width goes on in rows whose other
\* columns are empty.  Targets and tokens come in some order.
InOrder(S) == CHOOSE s \in [1 .. Cardinality(S) -> S] : IsInjective(s)
Row(t, b, toks) == [kind |-> "row", type |-> t, bucket |-> b, tokens |-> toks]
Chunks(seq, width) ==
    [i \in 1 .. (Len(seq) + width - 1) \div width |->
        SubSeq(seq, (i - 1) * width + 1, IF i * width < Len(seq) THEN i * width ELSE Len(seq))]
EntryRows(key, tokens, width) ==
    LET chunks == Chunks(InOrder(tokens), width)
    IN  [i \in DOMAIN chunks |-> IF i = 1 THEN Row(key[1], key[2], chunks[i])
                                          ELSE Row("", "", chunks[i])]
Header == Row("type", "bucket", <<"grants">>)
Title(k) == [kind |-> k, type |-> "", bucket |-> "", tokens |-> <<>>]
Table(held, width) ==
    LET keys == InOrder({h[1] : h \in held})
        upto[i \in 0 .. Len(keys)] ==
            IF i = 0 THEN <<>>
            ELSE upto[i - 1] \o EntryRows(keys[i], {h[2] : h \in {x \in held : x[1] = keys[i]}}, width)
    IN  <<Header>> \o upto[Len(keys)]
PrintGrants(held, inherited, width) ==
    <<Title("inherited")>> \o Table(inherited, width)
    \o <<Title("dedicated")>> \o Table(held, width)
    \o <<Title("cumulative")>> \o Table(held \cup inherited, width)

\* parseDedicatedGrants: the rows of its table, without the header
DedicatedRows(lines) ==
    {i \in DOMAIN lines : /\ lines[i].kind = "row" /\ lines[i].type # "type"
                          /\ \E j \in 1 .. i : lines[j].kind = "dedicated"
                          /\ \A j \in 1 .. i : lines[j].kind # "cumulative"}
MutContinues(lines, rows, i) == FALSE
\* A row with an empty type column goes on with the entry before it.
Continues(lines, rows, i) == lines[i].type = "" /\ \E j \in rows : j < i
Entry(lines, rows, i) ==
    [key    |-> <<lines[i].type, lines[i].bucket>>,
     tokens |-> UNION {Range(lines[j].tokens) :
                  j \in {k \in rows : k >= i /\ \A m \in rows \cap (i + 1 .. k) : Continues(lines, rows, m)}}]
parseDedicatedGrants(lines) ==
    UNION {{Entry(lines, rows, i) : i \in {k \in rows : ~Continues(lines, rows, k)}} :
               rows \in {DedicatedRows(lines)}}

-----------------------------------------------------------------------------
(* Revocation *)

\* The keys and tokens GrantUserPermissions has gone through when it revokes
Desired(grants) ==
    UNION {{grantKey(c.resource, c.bucket)} \X c.tokens :
               c \in {d \in GrantCalls(grants) : ~TargetFails(d.resource, d.bucket)}}

\* The call that takes tokens from an entry of print-grants
RevokeCall(key, tokens) ==
    [resource |-> IF key[1] = "*" THEN "any" ELSE "bucket",
     bucket   |-> IF key[1] = "*" THEN <<>> ELSE IF key[2] = "*" THEN <<key[1]>> ELSE key,
     tokens   |-> tokens]

\* One call for each entry that holds a token the spec does not list
RevokeCalls(entries, grants) ==
    {c \in {RevokeCall(e.key, {t \in e.tokens : <<e.key, t>> \notin Desired(grants)}) :
                e \in entries} : c.tokens # {}}

=============================================================================
