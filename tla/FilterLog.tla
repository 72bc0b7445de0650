------------------------------- MODULE FilterLog -------------------------------
(***************************************************************************)
(* The filter log: filter/filterlog.cpp.  An entry is its length and the   *)
(* kind of content it has; lengths are counted in units of which Unit make *)
(* a kilobyte.                                                             *)
(***************************************************************************)
EXTENDS Integers, Sequences

CONSTANTS ContentTypes,     \* what an entry may be about, "Meta" among them
          Lengths,          \* lengths of entries as they are added
          TimeStamp,        \* length of the time in front of an entry
          Unit,             \* the least limit (1024 in the code)
          Limits,           \* limits a user may set
          MaxEntries        \* how much is ever added

VARIABLES mLogEntries,      \* lengths of the entries, oldest first
          mMaxLogSize, mCurrentLogSize, mAllowedTypes, mLogging,
          added             \* entries added so far

vars == <<mLogEntries, mMaxLogSize, mCurrentLogSize, mAllowedTypes, mLogging, added>>

Unlimited == -1
Size(entries) ==
    LET upto[n \in 0..Len(entries)] == IF n = 0 THEN 0 ELSE upto[n - 1] + entries[n]
    IN  upto[Len(entries)]

Init ==
    /\ mLogEntries = <<>>
    /\ mMaxLogSize = 2 * Unit
    /\ mCurrentLogSize = 0
    /\ mAllowedTypes = ContentTypes
    /\ mLogging = FALSE
    /\ added = 0

\* checkLogSize on this log: drop the oldest entries until nine tenths of the limit
\* are left, so that it is not done again for every entry.
CheckLogSize(entries, size, max) ==
    LET fits(n) == 10 * (size - Size(SubSeq(entries, 1, n))) <= 9 * max
        dropped == IF \E n \in 0..Len(entries) : fits(n)
                   THEN CHOOSE n \in 0..Len(entries) : fits(n) /\ \A m \in 0..(n - 1) : ~fits(m)
                   ELSE Len(entries)
    IN  IF size > max /\ max > Unlimited
        THEN /\ mLogEntries' = SubSeq(entries, dropped + 1, Len(entries))
             /\ mCurrentLogSize' = IF \E n \in 0..Len(entries) : fits(n)
                                   THEN size - Size(SubSeq(entries, 1, dropped)) ELSE 0
        ELSE mLogEntries' = entries /\ mCurrentLogSize' = size

SetLogging(active) ==
    /\ mLogging' = active
    /\ UNCHANGED <<mLogEntries, mMaxLogSize, mCurrentLogSize, mAllowedTypes, added>>

SetMaxLogSize(size) ==
    LET max == IF size < Unlimited THEN Unlimited
               ELSE IF size >= 0 /\ size < Unit THEN Unit ELSE size
    IN  /\ mMaxLogSize' = max
        /\ CheckLogSize(mLogEntries, mCurrentLogSize, max)
        /\ UNCHANGED <<mAllowedTypes, mLogging, added>>

SetContentTypeEnabled(type, enable) ==
    /\ mAllowedTypes' = IF enable THEN mAllowedTypes \cup {type} ELSE mAllowedTypes \ {type}
    /\ UNCHANGED <<mLogEntries, mMaxLogSize, mCurrentLogSize, mLogging, added>>

AddUntimed(length, type) == \* faulty: the time in front is not counted
    LET timed == IF type = "Meta" THEN length ELSE length + TimeStamp
    IN  /\ added < MaxEntries
        /\ added' = added + 1
        /\ IF mLogging /\ type \in mAllowedTypes
           THEN CheckLogSize(Append(mLogEntries, timed), mCurrentLogSize + length, mMaxLogSize)
           ELSE UNCHANGED <<mLogEntries, mCurrentLogSize>>
        /\ UNCHANGED <<mMaxLogSize, mAllowedTypes, mLogging>>

Add(length, type) ==
    LET timed == IF type = "Meta" THEN length ELSE length + TimeStamp
    IN  /\ added < MaxEntries
        /\ added' = added + 1
        /\ IF mLogging /\ type \in mAllowedTypes
           THEN CheckLogSize(Append(mLogEntries, timed), mCurrentLogSize + timed, mMaxLogSize)
           ELSE UNCHANGED <<mLogEntries, mCurrentLogSize>>
        /\ UNCHANGED <<mMaxLogSize, mAllowedTypes, mLogging>>

Clear ==
    /\ mLogEntries' = <<>>
    /\ mCurrentLogSize' = 0
    /\ UNCHANGED <<mMaxLogSize, mAllowedTypes, mLogging, added>>

Next ==
    \/ \E active \in BOOLEAN : SetLogging(active)
    \/ \E size \in Limits : SetMaxLogSize(size)
    \/ \E type \in ContentTypes, enable \in BOOLEAN : SetContentTypeEnabled(type, enable)
    \/ \E length \in Lengths, type \in ContentTypes : Add(length, type)
    \/ Clear

Spec == Init /\ [][Next]_vars

\* The size that is counted is the size of what is there, through every way of
\* adding, limiting and clearing, and within the limit.
SizeIsExact ==
    /\ mCurrentLogSize = Size(mLogEntries)
    /\ mMaxLogSize # Unlimited => mCurrentLogSize <= mMaxLogSize
=============================================================================
