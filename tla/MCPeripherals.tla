----------------------------- MODULE MCPeripherals -----------------------------
(***************************************************************************)
(* The drivers of independent peripherals, checked side by side: one of    *)
(* them runs in each behaviour, the others stay as they were initialised.  *)
(***************************************************************************)
EXTENDS I2cMaster, UartAsync, UartPort, SpiMaster, I2cV151, SfcFlash, UsbDevice,
        Sensors, Gadc, Entropy, EmbassyTime, Watchdog, Timers, LatchedCounter

CONSTANTS t1, t2, s1

VARIABLE driver  \* the one that runs

peripheralVars ==
    <<driver, i2cVars, uartAsyncVars, upVars, spiVars, v151Vars, sfcVars, usbVars,
      sensorVars, gadcVars, trVars, vars, wdtVars, tmVars, lcVars>>

Drivers == {"i2c", "uart", "uart port", "spi", "i2c v151", "sfc", "usb", "adc", "tsensor",
            "gadc", "trng", "embassy", "watchdog", "timer", "counter"}

\* What does not run is in one initial state of its own.
PeripheralsInit ==
    /\ driver \in Drivers
    /\ I2cInit /\ UartInit /\ UpInit /\ SpiInit /\ V151Init /\ SfcInit /\ UsbInit /\ SensorsInit
    /\ GadcInit /\ TrInit /\ Init /\ WdtInit /\ TmInit /\ LcInit
    /\ driver # "usb" => /\ usbPresent /\ ~ usbAttached /\ usbCore = "idle"
                         /\ usbIntSts = {} /\ usbSpeed = 0
    /\ driver # "adc" => adcDriver = "block_on"
    /\ driver # "gadc" => ~ gdFaulty
    /\ driver # "trng" => trKind = "ws63"
    /\ driver # "watchdog" => ~ wdtWedged
    /\ driver # "timer" => tmUser = "oneshot"
    /\ driver # "counter" => lcReader = "tcxo"

\* What belongs to other drivers than d is left alone.
Only(d) ==
    /\ UNCHANGED driver
    /\ d # "i2c" => UNCHANGED i2cVars
    /\ d # "uart" => UNCHANGED uartAsyncVars
    /\ d # "uart port" => UNCHANGED upVars
    /\ d # "spi" => UNCHANGED spiVars
    /\ d # "i2c v151" => UNCHANGED v151Vars
    /\ d # "sfc" => UNCHANGED sfcVars
    /\ d # "usb" => UNCHANGED usbVars
    /\ d # "adc" => UNCHANGED adcVars
    /\ d # "tsensor" => UNCHANGED tsVars
    /\ d \notin {"adc", "tsensor"} => UNCHANGED conversions
    /\ d # "gadc" => UNCHANGED gadcVars
    /\ d # "trng" => UNCHANGED trVars
    /\ d # "embassy" => UNCHANGED vars
    /\ d # "watchdog" => UNCHANGED wdtVars
    /\ d # "timer" => UNCHANGED tmVars
    /\ d # "counter" => UNCHANGED lcVars

PeripheralsNext ==
    \/ driver = "i2c" /\ I2cNext /\ Only("i2c")
    \/ driver = "uart" /\ UartNext /\ Only("uart")
    \/ driver = "uart port" /\ UpNext /\ Only("uart port")
    \/ driver = "spi" /\ SpiNext /\ Only("spi")
    \/ driver = "i2c v151" /\ V151Next /\ Only("i2c v151")
    \/ driver = "sfc" /\ SfcNext /\ Only("sfc")
    \/ driver = "usb" /\ UsbNext /\ Only("usb")
    \/ driver = "adc" /\ AdcNext /\ Only("adc")
    \/ driver = "tsensor" /\ TsNext /\ Only("tsensor")
    \/ driver = "gadc" /\ GadcNext /\ Only("gadc")
    \/ driver = "trng" /\ TrNext /\ Only("trng")
    \/ driver = "embassy" /\ Next /\ Only("embassy")
    \/ driver = "watchdog" /\ WdtNext /\ Only("watchdog")
    \/ driver = "timer" /\ TmNext /\ Only("timer")
    \/ driver = "counter" /\ LcNext /\ Only("counter")

\* What each module, or its specification, says of its hart and its hardware.  The clock
\* of embassy-time ticks only where it runs.
PeripheralsFairness ==
    /\ WF_i2cVars(I2cDriver) /\ WF_i2cVars(Execute)
    /\ WF_uartAsyncVars(TaskStep) /\ WF_uartAsyncVars(on_interrupt)
    /\ WF_uartAsyncVars(OtherEvent)
    /\ WF_v151Vars(V151Fair)
    /\ UpFairness /\ SpiFairness
    /\ SfcFairness /\ UsbFairness /\ SensorsFairness /\ GadcFairness /\ TrFairness
    /\ WF_vars(Section) /\ SF_vars(on_alarm_interrupt)
    /\ WF_vars(driver = "embassy" /\ Tick)
    /\ WF_wdtVars(WdtFair) /\ TmFairness /\ LcFairness

PeripheralsSpec ==
    PeripheralsInit /\ [][PeripheralsNext]_peripheralVars /\ PeripheralsFairness

\* The state of every driver has its type.
PeripheralsTypeOK ==
    /\ I2cTypeOK /\ UartTypeOK /\ UpTypeOK /\ SpiTypeOK /\ V151TypeOK /\ SfcTypeOK /\ UsbTypeOK
    /\ SensorsTypeOK /\ GadcTypeOK /\ TrTypeOK /\ TypeOK /\ WdtTypeOK /\ TmTypeOK /\ LcTypeOK

\* What a sensor, a converter or the USB core returns was made for this call, of the
\* input asked for, and is returned once; and the converter is left isolated
\* (lsadc.rs:258, tsensor.rs:92, gadc.rs:226 and 256, usb.rs:89).
ResultsOwn ==
    SampleOnce /\ TemperatureAfterClear /\ GadcAsAsked /\ GadcIsolated /\ SpeedNegotiated

\* Timers and latched counters tell the time of this start and this call: no expiry is
\* early but one that was pending, unacknowledged, when a TimerDriver's start enabled the
\* channel again; no value is an earlier call's, unless the poll for it gave up
\* (timer.rs:176-180, 225 and 356, tcxo.rs:93-94).
TimesTrue == ExpiryNotEarly /\ CurrentIsFresh /\ CountCoherent

\* Every call returns whatever its device does or fails to do, also where the loops have
\* no bound but the clock is right: the UART's are stated where the PLL clocks it.  The
\* temperature sensor's read_blocking, which polls for ever a sensor that is off or was
\* not started, is not among them (i2c.rs:132-133, uart.rs:262, spi.rs:148,
\* i2c_v151.rs:65, usb.rs:43, gadc.rs:126-127, trng.rs:67, tcxo.rs:69).
CallsReturn ==
    /\ CallReturns /\ UartReturns /\ SpiReturns /\ V151Returns /\ EnumerateReturns
    /\ GadcReturns /\ RandomReturns /\ CountReturns

\* What is waited for and comes is noticed: a received byte, the end of a scan, of a flash
\* DMA, of a timer, a deadline; and a watchdog left armed bites (uart.rs:685, lsadc.rs:433,
\* sfc.rs:425, timer.rs:403, embassy.rs:11-12, wdt.rs:328-330).  The futures of the UART and
\* of the ADC can lose their wake, and need the OtherWakes and AdcOtherWakes of the run; a
\* delay of no time needs a channel that expires when it is loaded with zero, TmZeroFires.
EventsNoticed ==
    /\ ReadReturns /\ AdcReadReturns /\ DmaWaitReturns /\ WaitReturns /\ DeadlinesKept
    /\ WdtArmedBites
=============================================================================
