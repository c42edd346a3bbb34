--------------------------------- MODULE Io ---------------------------------
(* One analog and one digital channel of services/io, read by the io task   *)
(* in every period; they share nothing.  The pins and the converter are     *)
(* external.                                                                *)
EXTENDS Integers, Sequences

CONSTANTS
  Period,      \* GSG_IO_CONTINUOUS_MODE_PERIOD_MS
  MaxCount,    \* IO_ADC_MAX_COUNT
  Vref,        \* GSG_IO_ADC_VREF_PLUS_uV
  Gain, Precision,     \* what the channel is configured with: no offset
  Calibrations, \* [gain, offset] the application may set later; a gain may be negative
  DefaultAlpha, \* GSG_IO_DEFAULT_EMA_ALPHA
  DebounceTimes, Alphas,    \* what the application configures
  Depth        \* bound: how far back the readings are kept

VARIABLES
  rawCount, filteredCount, minCount, maxCount, anaValue, minValue, maxValue,
  firstSample, emaAlpha, calibration,
  usedCalibration, \* ghost: the one of the last sample
  state, debounceElapsedMs, debounceTimeMs,
  levels       \* ghost: the last readings of the pin since it was configured

analogVars  == <<rawCount, filteredCount, minCount, maxCount, anaValue, minValue, maxValue,
                 firstSample, emaAlpha, calibration, usedCalibration>>
digitalVars == <<state, debounceElapsedMs, debounceTimeMs, levels>>
vars == <<analogVars, digitalVars>>

Init ==
  /\ rawCount = 0 /\ filteredCount = 0 /\ minCount = 0 /\ maxCount = 0
  /\ anaValue = 0 /\ minValue = 0 /\ maxValue = 0
  /\ firstSample = TRUE /\ emaAlpha = DefaultAlpha
  /\ calibration = [gain |-> Gain, offset |-> 0] /\ usedCalibration = calibration
  /\ state = 0 /\ debounceElapsedMs = 0 /\ debounceTimeMs = 0
  /\ levels = <<>>

Lesser(a, b)  == IF a < b THEN a ELSE b
Greater(a, b) == IF a > b THEN a ELSE b

----------------------------------------------------------------------------
(* ioProcessAnalogChannel *)

\* Division of C: towards 0.
Quotient(a, b) == IF a < 0 THEN -((-a) \div b) ELSE a \div b

\* Half of b away from 0, then the division: the nearest multiple.
Rounded(a, b) == Quotient(IF a < 0 THEN a - b \div 2 ELSE a + b \div 2, b)

\* What analog_data_t cannot hold is not modelled: no calibration makes a value that large.
Convert(count, cal) ==
  LET microvolts == (count * Vref + MaxCount \div 2) \div MaxCount
  IN  Rounded((Rounded(microvolts * cal.gain, 1000) + cal.offset) * Precision, 1000000)

FilterSum(old, raw) == old + Quotient(raw * emaAlpha, 1000)        \* mutant

Filter(old, raw) == old + Quotient((raw - old) * emaAlpha, 1000)

Sample(raw) == IF firstSample THEN raw ELSE Filter(filteredCount, raw)

Measure(raw, filtered, val) ==
  /\ rawCount' = raw /\ filteredCount' = filtered /\ anaValue' = val
  /\ minCount' = IF firstSample THEN raw ELSE Lesser(minCount, raw)
  /\ maxCount' = IF firstSample THEN raw ELSE Greater(maxCount, raw)
  /\ minValue' = IF firstSample THEN val ELSE Lesser(minValue, val)
  /\ maxValue' = IF firstSample THEN val ELSE Greater(maxValue, val)

ioProcessAnalogChannel ==
  /\ \E raw \in 0..MaxCount : Measure(raw, Sample(raw), Convert(Sample(raw), calibration))
  /\ firstSample' = FALSE /\ usedCalibration' = calibration
  /\ UNCHANGED <<emaAlpha, calibration, digitalVars>>

IO_ConfigureAnalogEMA ==
  /\ emaAlpha' \in Alphas
  /\ UNCHANGED <<rawCount, filteredCount, minCount, maxCount, anaValue, minValue, maxValue,
                 firstSample, calibration, usedCalibration, digitalVars>>

\* The limits keep the values of the calibration before.
IO_setAnalogCalibration ==
  /\ calibration' \in Calibrations
  /\ UNCHANGED <<rawCount, filteredCount, minCount, maxCount, anaValue, minValue, maxValue,
                 firstSample, emaAlpha, usedCalibration, digitalVars>>

----------------------------------------------------------------------------
(* ioProcessDigitalChannel *)

Remember(level) ==
  levels' = IF Len(levels) < Depth THEN Append(levels, level) ELSE Append(Tail(levels), level)

SameLevelKeeps(level) ==                            \* mutant
  level = state /\ UNCHANGED <<state, debounceElapsedMs>>

SameLevel(level) ==
  level = state /\ debounceElapsedMs' = 0 /\ UNCHANGED state

OtherLevel(level) ==
  /\ level # state
  /\ IF debounceElapsedMs + Period >= debounceTimeMs
     THEN state' = level /\ debounceElapsedMs' = 0
     ELSE debounceElapsedMs' = debounceElapsedMs + Period /\ UNCHANGED state

\* A reading that fails changes neither the state nor the time.
ioProcessDigitalChannel ==
  /\ \E level \in {0, 1} : (SameLevel(level) \/ OtherLevel(level)) /\ Remember(level)
  /\ UNCHANGED <<debounceTimeMs, analogVars>>

IO_ConfigureDigitalChannel ==
  /\ debounceTimeMs' \in DebounceTimes
  /\ debounceElapsedMs' = 0 /\ levels' = <<>>
  /\ UNCHANGED <<state, analogVars>>

AnalogNext  == ioProcessAnalogChannel \/ IO_ConfigureAnalogEMA \/ IO_setAnalogCalibration
DigitalNext == ioProcessDigitalChannel \/ IO_ConfigureDigitalChannel
Next == AnalogNext \/ DigitalNext

----------------------------------------------------------------------------
(* Properties *)

\* Whatever the samples, and however the filter and the calibration are changed between
\* them, the filtered count stays between the least and the greatest sample, and the value
\* between what the calibration of its own sample makes of these two: the greatest may give
\* the least value, as a gain may be negative.
FilteredWithin ==
  /\ minCount <= filteredCount /\ filteredCount <= maxCount
  /\ ~firstSample =>
       LET low == Convert(minCount, usedCalibration) high == Convert(maxCount, usedCalibration)
       IN  Lesser(low, high) <= anaValue /\ anaValue <= Greater(low, high)

\* The state of a pin changes only when all readings over the debounce time,
\* none older than the last configuration, have shown the new level.
Debounced ==
  [][ state' # state =>
      LET needed == Greater(1, (debounceTimeMs + Period - 1) \div Period)
      IN  /\ Len(levels') >= needed
          /\ \A i \in Len(levels') - needed + 1..Len(levels') : levels'[i] = state' ]_vars
=============================================================================
