----------------------------- MODULE BlockHash -----------------------------
(***************************************************************************)
(* The hash of a file, fed with whatever reads return: XXH64 of a memory   *)
(* block and of a stream (xxhash.h), behind the wrappers of utils.cpp.     *)
(*                                                                         *)
(* The arithmetic of a round is left uninterpreted: the accumulators are   *)
(* the stripes they took in, in order, and a hash is what was mixed into   *)
(* it, in order and in the units (stripe, 8, 4 or 1 bytes) it was mixed    *)
(* in.  Two hashes are equal here only if the code computes the same term. *)
(* The seed is always 0.                                                   *)
(***************************************************************************)
EXTENDS Integers, Sequences

CONSTANT Bytes      \* what a byte of memory can be, 0 among them

Stripe == 32        \* sizeof(XXH64_state_t.buffer)
Seed   == 0

State == [acc : Seq(Seq(Bytes)), total_len : Nat, buffer : [1..Stripe -> Bytes],
          bufferedSize : 0..(Stripe - 1)]

Slice(s, a, len) == [k \in 1..len |-> s[a + k]]

\* The first len bytes as stripes of 32; what follows the last one is not looked at
Stripes(s, len) == [j \in 1..(len \div Stripe) |-> Slice(s, (j - 1) * Stripe, Stripe)]

initAccs == <<>>

\* do ... while (input < bEnd - 31): len is at least 32
consumeLong(acc, input, len) == acc \o Stripes(input, len)

mergeAccs(acc) == <<"accs", acc>>

\* The last 0-31 bytes: groups of 8, one of 4, single bytes
finalize(h, s, len) ==
    LET rest   == len % Stripe
        eights == rest \div 8
        four   == (rest % 8) \div 4
    IN <<"avalanche", h,
         [j \in 1..eights |-> Slice(s, (j - 1) * 8, 8)],
         [j \in 1..four |-> Slice(s, eights * 8, 4)],
         [j \in 1..(rest % 4) |-> s[eights * 8 + four * 4 + j]]>>

endian_align(s, len) ==
    LET long == (len \div Stripe) * Stripe
        h    == IF len >= Stripe THEN mergeAccs(consumeLong(initAccs, s, len)) ELSE <<"seed", Seed>>
    IN finalize(<<h, len>>, Slice(s, long, len - long), len)

XXH64(s) == endian_align(s, Len(s))

reset == [acc |-> initAccs, total_len |-> 0, buffer |-> [k \in 1..Stripe |-> 0], bufferedSize |-> 0]

memcpy(buffer, at, s, len) ==
    [k \in 1..Stripe |-> IF k > at /\ k <= at + len THEN s[k - at] ELSE buffer[k]]

\* Mutant: bytes that fill the buffer exactly stay in it until more of them come
updateLazy(st, s) ==
    LET len  == Len(s)
        take == IF st.bufferedSize > 0 THEN Stripe - st.bufferedSize ELSE 0
        used == take + ((len - take) \div Stripe) * Stripe
    IN IF len <= Stripe - st.bufferedSize
       THEN [st EXCEPT !.total_len = @ + len, !.buffer = memcpy(@, st.bufferedSize, s, len),
                       !.bufferedSize = @ + len]
       ELSE [acc |-> (IF take > 0 THEN consumeLong(st.acc, memcpy(st.buffer, st.bufferedSize, s, take), Stripe)
                      ELSE st.acc) \o Stripes(Slice(s, take, len - take), len - take),
             total_len |-> st.total_len + len,
             buffer |-> memcpy(st.buffer, 0, Slice(s, used, len - used), len - used),
             bufferedSize |-> len - used]

update(st, s) ==
    LET len    == Len(s)
        \* complete the buffer first, if there is something in it
        take   == IF st.bufferedSize > 0 THEN Stripe - st.bufferedSize ELSE 0
        filled == memcpy(st.buffer, st.bufferedSize, s, take)
        acc1   == IF take > 0 THEN consumeLong(st.acc, filled, Stripe) ELSE st.acc
        \* then whole stripes from the input, then what is left over into the buffer
        more   == Slice(s, take, len - take)
        acc2   == IF len - take >= Stripe THEN consumeLong(acc1, more, len - take) ELSE acc1
        used   == take + ((len - take) \div Stripe) * Stripe
    IN IF len < Stripe - st.bufferedSize
       THEN [st EXCEPT !.total_len = @ + len,
                       !.buffer = memcpy(@, st.bufferedSize, s, len),
                       !.bufferedSize = @ + len]
       ELSE [acc |-> acc2, total_len |-> st.total_len + len,
             buffer |-> memcpy(filled, 0, Slice(s, used, len - used), len - used),
             bufferedSize |-> len - used]

digest(st) ==
    LET h == IF st.total_len >= Stripe THEN mergeAccs(st.acc) ELSE <<"seed", Seed>>
    IN finalize(<<h, st.total_len>>, st.buffer, st.total_len)

----------------------------------------------------------------------------
(* utils.cpp                                                               *)

startBlockHash == reset

\* A read that returned nothing or an error is not hashed
updateBlockHash(st, s, len) == IF len > 0 THEN update(st, Slice(s, 0, len)) ELSE st

getBlockHash(st) == digest(st)

getHashStateLen(st) == st.total_len

\* len <= 0: the text up to its end
getHash(s, len) == XXH64(IF len <= 0 THEN s ELSE Slice(s, 0, len))
=============================================================================
