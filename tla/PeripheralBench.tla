--------------------------- MODULE PeripheralBench ---------------------------
(***************************************************************************)
(* The test of any one peripheral, performed again and again.  The tests   *)
(* of different peripherals share no handle, flag, buffer or DMA stream    *)
(* and never run at the same time, so each is checked by itself: device is *)
(* chosen at the start, and what belongs to the others stays as it is.     *)
(***************************************************************************)
EXTENDS PeripheralTest

CONSTANT Devices    \* those that are considered

ASSUME BenchAssumption == Devices \subseteq {"UART", "SPI", "I2C", "TIM", "ADC"}

VARIABLES
  device,
  uart_rx_done, rx, RxState, gState, TxXferCount, wire, uart_RDR, errors,
  EIE, DMAR, uart_NDTR, uart_TCIF,
  spi_tx_done, spi_rx_done, spi_buf, spi_State, txNDTR, rxNDTR, txTCIF, rxTCIF,
  txFifo, rxFifo, polling,
  i2c_tx_done, i2c_rx_done, i2c_buf, i2c_State, AF, STOPI, DMAEN,
  i2c_NDTR, i2c_TCIF, TXDR, i2c_RDR, NACKF, STOPF, bus, left,
  tim6_count, samples, CEN, CNT, UIF, UDR, tim_NDTR, tim_TCIF, delay,
  build, adc_ready, adc_buf, SWSTART, adc_NDTR, adc_TCIF

uartVars ==
  <<uart_rx_done, rx, RxState, gState, TxXferCount, wire, uart_RDR, errors,
    EIE, DMAR, uart_NDTR, uart_TCIF>>
spiVars ==
  <<spi_tx_done, spi_rx_done, spi_buf, spi_State, txNDTR, rxNDTR, txTCIF, rxTCIF,
    txFifo, rxFifo, polling>>
i2cVars ==
  <<i2c_tx_done, i2c_rx_done, i2c_buf, i2c_State, AF, STOPI, DMAEN,
    i2c_NDTR, i2c_TCIF, TXDR, i2c_RDR, NACKF, STOPF, bus, left>>
timVars == <<tim6_count, samples, CEN, CNT, UIF, UDR, tim_NDTR, tim_TCIF, delay>>
adcVars == <<build, adc_ready, adc_buf, SWSTART, adc_NDTR, adc_TCIF>>
vars == <<device, testVars, history, uartVars, spiVars, i2cVars, timVars, adcVars>>

Uart == INSTANCE UartTest WITH
  rx_done <- uart_rx_done, RDR <- uart_RDR, NDTR <- uart_NDTR, TCIF <- uart_TCIF

Spi == INSTANCE SpiTest WITH
  tx_done <- spi_tx_done, rx_done <- spi_rx_done, buf <- spi_buf, State <- spi_State

I2c == INSTANCE I2cTest WITH
  tx_done <- i2c_tx_done, rx_done <- i2c_rx_done, buf <- i2c_buf, State <- i2c_State,
  NDTR <- i2c_NDTR, TCIF <- i2c_TCIF, RDR <- i2c_RDR

Timer == INSTANCE TimerTest WITH NDTR <- tim_NDTR, TCIF <- tim_TCIF

Adc == INSTANCE AdcTest WITH NDTR <- adc_NDTR, TCIF <- adc_TCIF

Init ==
  /\ device \in Devices
  /\ Uart!Init /\ Spi!Init /\ I2c!Init /\ Timer!Init /\ Adc!Init
  /\ device = "ADC" \/ build = "Debug"

Only(d) ==
  /\ device = d /\ UNCHANGED device
  /\ d # "UART" => UNCHANGED uartVars
  /\ d # "SPI"  => UNCHANGED spiVars
  /\ d # "I2C"  => UNCHANGED i2cVars
  /\ d # "TIM"  => UNCHANGED timVars
  /\ d # "ADC"  => UNCHANGED adcVars

Begin ==
  \/ Only("UART") /\ Uart!Begin
  \/ Only("SPI") /\ Spi!Begin
  \/ Only("I2C") /\ I2c!Begin
  \/ Only("TIM") /\ Timer!Begin
  \/ Only("ADC") /\ Adc!Begin

(* The program.                                                            *)
MainStep ==
  \/ Only("UART") /\ Uart!MainStep
  \/ Only("SPI") /\ Spi!MainStep
  \/ Only("I2C") /\ I2c!MainStep
  \/ Only("TIM") /\ Timer!MainStep
  \/ Only("ADC") /\ Adc!MainStep

(* The interrupt handlers.                                                 *)
IrqStep ==
  \/ Only("UART") /\ Uart!IrqStep
  \/ Only("SPI") /\ Spi!IrqStep
  \/ Only("I2C") /\ I2c!IrqStep
  \/ Only("TIM") /\ Timer!IrqStep
  \/ Only("ADC") /\ Adc!IrqStep

(* The DMA.                                                                *)
DmaStep ==
  \/ Only("UART") /\ Uart!DmaStep
  \/ Only("SPI") /\ Spi!DmaStep
  \/ Only("I2C") /\ I2c!DmaStep
  \/ Only("TIM") /\ Timer!DmaStep

(* The wires, the clocks and the voltage.                                  *)
WireStep ==
  \/ Only("UART") /\ Uart!WireStep
  \/ Only("SPI") /\ Spi!WireStep
  \/ Only("I2C") /\ I2c!WireStep
  \/ Only("TIM") /\ Timer!WireStep
  \/ Only("ADC") /\ Adc!WireStep

Next == Begin \/ MainStep \/ IrqStep \/ DmaStep \/ WireStep

Spec == Init /\ [][Next]_vars

(* The program runs on, interrupts are taken, the DMA and the wires go on. *)
Fairness ==
  WF_vars(MainStep) /\ WF_vars(IrqStep) /\ WF_vars(DmaStep) /\ WF_vars(WireStep)

FairSpec == Spec /\ Fairness

-----------------------------------------------------------------------------
(* Every variable keeps its type; no FIFO, register pair or buffer takes   *)
(* more than it holds.                                                     *)
TypeOK ==
  /\ device \in Devices
  /\ device = "UART" => Uart!TypeOK
  /\ device = "SPI"  => Spi!TypeOK
  /\ device = "I2C"  => I2c!TypeOK
  /\ device = "TIM"  => Timer!TypeOK
  /\ device = "ADC"  => Adc!TypeOK

(* Between two tests nothing is armed, under way or unread: a test that    *)
(* returns leaves its peripheral as it found it.  What may linger is said  *)
(* in the modules.                                                         *)
UartClean == device = "UART" => Uart!CleanBetweenTests
SpiClean  == device = "SPI" => Spi!CleanBetweenTests
I2cClean  == device = "I2C" => I2c!CleanBetweenTests
AdcClean  == device = "ADC" => Adc!CleanBetweenTests

(* No call finds its handle busy; only the empty message is refused.       *)
UartNeverBusy == device = "UART" => Uart!NeverBusy
SpiNeverBusy  == device = "SPI" => Spi!NeverBusy

(* What is sent back and what is compared was received, or sampled, in     *)
(* this test.                                                              *)
UartNothingUnwrittenRead  == device = "UART" => Uart!NothingUnwrittenRead
SpiNothingUnwrittenRead   == device = "SPI" => Spi!NothingUnwrittenRead
I2cNothingUnwrittenRead   == device = "I2C" => I2c!NothingUnwrittenRead
TimerNothingUnwrittenRead == device = "TIM" => Timer!NothingUnwrittenRead

(* Every test returns a verdict, whatever the order in which handlers, DMA *)
(* and wires come to run, unless something has broken a transfer, the      *)
(* message fits into the SPI slave's FIFO or the Release build spins.      *)
Broken ==
  \/ device = "UART" /\ Happened(Uart!Breaking)
  \/ device = "SPI" /\ (Happened(Spi!Breaking) \/ Spi!Fits)
  \/ device = "I2C" /\ Happened(I2c!Breaking)
  \/ device = "ADC" /\ Adc!Spins

ReturnsUnlessBroken == pc = "start" ~> (pc = "idle" \/ Broken)

(* Every test returns a verdict (spi_test.h).                              *)
Returns == pc = "start" ~> pc = "idle"
=============================================================================
