----------------------------- MODULE KeyNaming -----------------------------
(***************************************************************************)
(* The names of Valkey keys (src/limiter.rs): escape_identity_value,       *)
(* identity and bucket_key.  A string is the sequence of its characters;   *)
(* the words that every key contains are shortened to one letter.          *)
(***************************************************************************)
EXTENDS Integers, Sequences, FiniteSets, SequencesExt

Colon == <<":">>
Backslash == <<"\\">>

\* value.replace(c, by)
Replace(s, c, by) == FlattenSeq([i \in 1 .. Len(s) |-> IF s[i] = c THEN by ELSE <<s[i]>>])

\* The escape character first.
Escape(name) ==
    Replace(Replace(name, "\\", Backslash \o Backslash), ":", Backslash \o Colon)

\* SASL_IDENTITY_KIND is s.
Identity(name) == <<"s">> \o Colon \o Escape(name)

\* BUCKET_KEY_TYPE is b, BUCKET_SCHEMA_VERSION is v.
BucketKey(key_prefix, name, bucket_size) ==
    key_prefix \o Colon \o <<"b">> \o Colon \o <<"v">> \o Colon \o Identity(name)
        \o Colon \o bucket_size

\* A key belongs to one prefix, one user and one bucket size: no username,
\* whatever separators and escape characters it contains, shares a hash with
\* another user, with another bucket size, or with an instance that was given
\* another key_prefix to keep its senders apart.
KeysAreDistinct(key_prefixes, names, bucket_sizes) ==
    LET uses == key_prefixes \X names \X bucket_sizes
    IN  Cardinality({BucketKey(u[1], u[2], u[3]) : u \in uses}) = Cardinality(uses)
=============================================================================
