---------------------------- MODULE ExpiryDates ----------------------------
(***************************************************************************)
(* The date arithmetic of message expiry.  Times are counted in units of   *)
(* 128 seconds, so that a day is exactly 675 units and the 32-bit          *)
(* overflow of a number of seconds happens at 2^25 units.                  *)
(***************************************************************************)
EXTENDS Integers

CONSTANTS
  Now,     \* QDateTime::currentSecsSinceEpoch()
  NoDate   \* the mail has no valid Date header

Day == 675

(* ExpireCollectionAttribute::ExpireUnits *)
ExpireNever == 0
ExpireDays == 1
ExpireWeeks == 2
ExpireMonths == 3
ExpireMaxUnits == 4

(* ExpireCollectionAttribute::daysToExpire(number, units) *)
DaysToExpire(number, units) ==
  CASE units = ExpireDays   -> number
    [] units = ExpireWeeks  -> number * 7
    [] units = ExpireMonths -> number * 31
    [] OTHER -> -1

(* days * 3600 * 24 in the code's int; the product is taken in two parts   *)
(* because TLC's own integers are no wider.                                *)
SecondsOf(days) ==
  LET low  == Day * (days % 2^12)
      high == 2^12 * ((Day * (days \div 2^12)) % 2^13)
      bits == (low + high) % 2^25
  IN  IF bits < 2^24 THEN bits ELSE bits - 2^25

(* mMaxReadTime, mMaxUnreadTime: mail dated before it is expired. *)
MaxTime(days) == IF days > 0 THEN Now - SecondsOf(days) ELSE 0
=============================================================================
