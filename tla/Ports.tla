--------------------------------- MODULE Ports ---------------------------------
(***************************************************************************)
(* The ports of the core beside each other: Serial1, the pins, interrupts, *)
(* I2C and SPI.                                                            *)
(*                                                                         *)
(* They have no variable in common, so that what one of them does cannot   *)
(* be told from what the others did before.  A behaviour therefore moves   *)
(* one port, the `focus', and leaves the others as they were set up: the   *)
(* properties of a port speak of its variables only and hold in every      *)
(* interleaving of the ports if they hold here.                            *)
(***************************************************************************)
EXTENDS HostUart, HostBus, HostInterrupt, TwoWire, SpiBus

VARIABLE focus

beside_uart == <<gpio_vars, analog_vars, irq_vars, wire_vars, spi_vars>>
beside_gpio == <<uart_vars, analog_vars, irq_vars, wire_vars, spi_vars>>
beside_analog == <<uart_vars, gpio_vars, irq_vars, wire_vars, spi_vars>>
beside_irq == <<uart_vars, gpio_vars, analog_vars, wire_vars, spi_vars>>
beside_wire == <<uart_vars, gpio_vars, analog_vars, irq_vars, spi_vars>>
beside_spi == <<uart_vars, gpio_vars, analog_vars, irq_vars, wire_vars>>
ports_vars == <<focus, uart_vars, beside_uart>>

PortsInit ==
  /\ focus \in {"uart", "gpio", "analog", "interrupt", "wire", "spi"}
  /\ UartInit /\ GpioInit /\ AnalogInit /\ InterruptInit /\ WireInit /\ SpiInit

PortsNext ==
  /\ UNCHANGED focus
  /\ \/ focus = "uart" /\ UartNext /\ UNCHANGED beside_uart
     \/ focus = "gpio" /\ GpioNext /\ UNCHANGED beside_gpio
     \/ focus = "analog" /\ AnalogNext /\ UNCHANGED beside_analog
     \/ focus = "interrupt" /\ InterruptNext /\ UNCHANGED beside_irq
     \/ focus = "wire" /\ WireNext /\ UNCHANGED beside_wire
     \/ focus = "spi" /\ SpiNext /\ UNCHANGED beside_spi

PortsSpec == PortsInit /\ [][PortsNext]_ports_vars
------------------------------------------------------------------------------
(* Every variable of the ports has its type.                               *)
PortsTypeOK == UartTypeOK /\ BusTypeOK /\ InterruptTypeOK /\ WireTypeOK /\ SpiTypeOK
================================================================================
