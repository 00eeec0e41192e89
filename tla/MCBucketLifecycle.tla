------------------------ MODULE MCBucketLifecycle ------------------------
\* Small instances of BucketLifecycle for TLC.
EXTENDS BucketLifecycle

\* Bucket type "t" with each property alone, both spellings of n_val at once,
\* a raw n_val that both parsers read, that only JSON reads and that only
\* ParseInt reads, and the default type with nothing and with a number too
\* large for the status to update.
Raw(f, k) == [form |-> f, n |-> k]
MCSpecs ==
    {[NoSpec EXCEPT !.type = "t", !.nval = 2, !.rf = 1],
     [NoSpec EXCEPT !.type = "t", !.multi = TRUE, !.rawMulti = "false"],
     [NoSpec EXCEPT !.type = "t", !.raw = Raw("digits", 3)],
     [NoSpec EXCEPT !.type = "t", !.raw = Raw("decimal", 3)],
     [NoSpec EXCEPT !.type = "t", !.raw = Raw("signed", 1)],
     [NoSpec EXCEPT !.raw = Raw("digits", 4)],
     NoSpec}
=============================================================================
